---- MODULE Spec2Model ----
(***************************************************************************)
(* State-machine model of bayut-competitor-analytics: the heading          *)
(* normalizers, the page structurer (analyzers/parser.py), the gap and     *)
(* strategy functions (analyzers/analyzers/gaps.py), the fixed-row gap     *)
(* engine (analyzers/gaps.py) and the run step of the Streamlit app.       *)
(*                                                                         *)
(* Text is modelled as a sequence of one-character strings, so that the    *)
(* normalizers are computed character by character as the code does.       *)
(***************************************************************************)
EXTENDS Integers, Sequences, FiniteSets, TLC

VARIABLES
    bayut_parsed,   \* update_gaps: the parsed record of the primary page
    competitors,    \* update_gaps / new_post_strategy: list of {url, parsed}
    call,           \* which function of analyzers/analyzers/gaps.py has returned
    missing,        \* the list returned by update_gaps
    recommendations, \* strategy["recommended_sections"] of new_post_strategy
    heading,        \* a heading text given to the normalizer
    normalized,     \* the results of normalizing it once, twice, ...
    html,           \* the markup given to parse_html: the nodes of its main container
    parses,         \* the records the calls of parse_html on it have returned
    bayut_url,      \* the url of the primary page (the text of the input field)
    competitor_urls, \* the competitor urls of the run, in input order
    web,            \* analyze_article: the response the web serves for each url
    analysis,       \* the returns of analyze_article so far (none or one)
    mode,           \* app.py: the selected mode, "NEW POST" or "UPDATE"
    bayut_title,    \* app.py: the text of the title field
    session_competitors, \* app.py: st.session_state["competitors"]
    errors,         \* app.py: the error rows of the fetch loop
    next_url,       \* app.py: the position of the fetch loop in competitor_urls
    pc,             \* app.py: where the run is
    message,        \* app.py: the text of st.error when the run has stopped
    fetch_log,      \* app.py: the results of fetch_html in the competitor loop, in call order
    bayut_result    \* app.py: the result of fetch_html for the Bayut url (none or one)

gapVars   == <<bayut_parsed, competitors, call, missing, recommendations>>
normVars  == <<heading, normalized>>
parseVars == <<html, parses>>
urlVars   == <<bayut_url, competitor_urls>>
articleVars == <<web, analysis>>
appVars   == <<mode, bayut_title, session_competitors, errors, next_url, pc, message, fetch_log,
               bayut_result>>

vars == <<gapVars, normVars, parseVars, urlVars, articleVars, appVars>>

\* analyze_article is not being called, and the app is not running.
ArticleIdle == bayut_url = <<>> /\ competitor_urls = <<>> /\ web = <<>> /\ analysis = <<>>

AppIdle ==
    /\ mode = "UPDATE"
    /\ bayut_title = <<>>
    /\ session_competitors = <<>>
    /\ errors = <<>>
    /\ next_url = 0
    /\ pc = "idle"
    /\ message = "none"
    /\ fetch_log = <<>>
    /\ bayut_result = <<>>

(***************************************************************************)
(* Characters and strings                                                  *)
(***************************************************************************)
UpperChars == <<"A","B","C","D","E","F","G","H","I","J","K","L","M",
                "N","O","P","Q","R","S","T","U","V","W","X","Y","Z">>

LowerChars == <<"a","b","c","d","e","f","g","h","i","j","k","l","m",
                "n","o","p","q","r","s","t","u","v","w","x","y","z">>

Digits == {"0","1","2","3","4","5","6","7","8","9"}

\* Python's str.split() / the regex class \s on the characters used here.
Whitespace == {" ", "\t", "\n"}

SeqToSet(s) == {s[i] : i \in DOMAIN s}

\* str.lower() on one character.
LowerMap ==
    [c \in SeqToSet(UpperChars) |->
        LowerChars[CHOOSE i \in DOMAIN UpperChars : UpperChars[i] = c]]

LowerChar(c) == IF c \in DOMAIN LowerMap THEN LowerMap[c] ELSE c

\* str.lower()
Lower(s) == [i \in DOMAIN s |-> LowerChar(s[i])]

\* str.strip(): the text from its first to its last non-whitespace character.
Strip(s) ==
    LET solid == {i \in DOMAIN s : s[i] \notin Whitespace}
    IN  IF solid = {} THEN <<>>
        ELSE SubSeq(s, CHOOSE i \in solid : \A j \in solid : i <= j,
                       CHOOSE i \in solid : \A j \in solid : j <= i)

\* re.sub("[class]+", char, s): every maximal run of characters of `class` is
\* replaced by the one character `char` (the last character of a run becomes
\* `char`, the others are dropped).
SubRuns(s, class, char) ==
    LET marked == [i \in DOMAIN s |->
                      IF s[i] \notin class THEN s[i]
                      ELSE IF i < Len(s) /\ s[i + 1] \in class THEN "" ELSE char]
    IN  SelectSeq(marked, LAMBDA c : c # "")

\* re.sub("[^keep]", "", s): every character outside `keep` is deleted.
KeepOnly(s, keep) == SelectSeq(s, LAMBDA c : c \in keep)

\* str.split(): the maximal runs of non-whitespace characters, in order.
Split(s) ==
    LET starts == {i \in DOMAIN s :
                      s[i] \notin Whitespace /\ (i = 1 \/ s[i - 1] \in Whitespace)}
        start(k) == CHOOSE i \in starts : Cardinality({j \in starts : j < i}) = k - 1
        end(i) == CHOOSE j \in i..Len(s) :
                      /\ \A l \in i..j : s[l] \notin Whitespace
                      /\ (j = Len(s) \/ s[j + 1] \in Whitespace)
    IN  [k \in 1..Cardinality(starts) |-> SubSeq(s, start(k), end(start(k)))]

\* " ".join(words)
RECURSIVE JoinSpace(_)
JoinSpace(words) ==
    IF words = <<>> THEN <<>>
    ELSE IF Len(words) = 1 THEN words[1]
    ELSE words[1] \o <<" ">> \o JoinSpace(Tail(words))

\* `w in s` for strings: w occurs in s as a contiguous substring.
Contains(s, w) ==
    \E i \in 0..(Len(s) - Len(w)) : SubSeq(s, i + 1, i + Len(w)) = w

\* A character is a one-character string; the four non-ASCII characters the
\* code names are written MIDDOT (U+00B7), ENDASH (U+2013), EMDASH (U+2014) and
\* BULLET (U+2022).
\* The characters in code-point order, for Python's comparison of strings.
CodePoints ==
    <<"\t", "\n", " ", "!", "&", "'", "(", ")", ",", "-", ".", "/",
      "0","1","2","3","4","5","6","7","8","9", ":", "?",
      "A","B","C","D","E","F","G","H","I","J","K","L","M",
      "N","O","P","Q","R","S","T","U","V","W","X","Y","Z", "_",
      "a","b","c","d","e","f","g","h","i","j","k","l","m",
      "n","o","p","q","r","s","t","u","v","w","x","y","z", "|",
      "MIDDOT", "ENDASH", "EMDASH", "BULLET">>

Ord == [c \in SeqToSet(CodePoints) |->
            CHOOSE i \in DOMAIN CodePoints : CodePoints[i] = c]

\* a < b for strings: decided by the first position where they differ, a
\* proper prefix coming first.
StrLess(a, b) ==
    LET differ == {i \in DOMAIN a \cap DOMAIN b : a[i] # b[i]}
    IN  IF differ = {} THEN Len(a) < Len(b)
        ELSE LET d == CHOOSE i \in differ : \A j \in differ : i <= j
             IN  Ord[a[d]] < Ord[b[d]]

(***************************************************************************)
(* analyzers/parser.py: the text helpers                                   *)
(***************************************************************************)
\* _clean_text(s) = re.sub(r"\s+", " ", s or "").strip()
_clean_text(s) == Strip(SubRuns(s, Whitespace, " "))

\* The class [\|\-\—\–•·•] of _norm_heading.
DashChars == {"|", "-", "EMDASH", "ENDASH", "BULLET", "MIDDOT"}

\* The class [a-z0-9\s\?\&\(\)\:\/] of _norm_heading.
NormKeep ==
    SeqToSet(LowerChars) \cup Digits \cup Whitespace \cup {"?", "&", "(", ")", ":", "/"}

\* The mutant: the heading is not lowercased.
_norm_heading_NoLower(s) ==
    Strip(SubRuns(KeepOnly(SubRuns(_clean_text(s), DashChars, " "), NormKeep),
                  Whitespace, " "))

\* The mutant: the last re.sub(r"\s+", " ", s).strip() is left out.
_norm_heading_NoFinalCollapse(s) ==
    KeepOnly(SubRuns(Lower(_clean_text(s)), DashChars, " "), NormKeep)

\* _norm_heading(s)
_norm_heading(s) ==
    LET s1 == Lower(_clean_text(s))
        s2 == SubRuns(s1, DashChars, " ")
        s3 == KeepOnly(s2, NormKeep)
    IN  Strip(SubRuns(s3, Whitespace, " "))

(***************************************************************************)
(* analyzers/parser.py: the structurer                                     *)
(*                                                                         *)
(* A node of the markup is [name, class, text, kids]: a leaf carries text, *)
(* a div carries child nodes. `html` is the list of the children of the    *)
(* container _get_main_container returns.                                  *)
(***************************************************************************)
kill_tags == {"header", "footer", "nav", "aside", "form"}

bad_words ==
    { <<"c","o","o","k","i","e">>,
      <<"c","o","n","s","e","n","t">>,
      <<"g","d","p","r">>,
      <<"s","u","b","s","c","r","i","b","e">>,
      <<"n","e","w","s","l","e","t","t","e","r">>,
      <<"s","i","g","n","u","p">>,
      <<"m","o","d","a","l">>,
      <<"p","o","p","u","p">>,
      <<"b","a","n","n","e","r">>,
      <<"b","r","e","a","d","c","r","u","m","b","s">>,
      <<"b","r","e","a","d","c","r","u","m","b">>,
      <<"s","h","a","r","e">>,
      <<"s","o","c","i","a","l">>,
      <<"c","o","m","m","e","n","t">>,
      <<"c","o","m","m","e","n","t","s">>,
      <<"r","e","l","a","t","e","d">>,
      <<"r","e","c","o","m","m","e","n","d">>,
      <<"s","i","d","e","b","a","r">>,
      <<"s","t","i","c","k","y">>,
      <<"n","a","v">>,
      <<"m","e","n","u">>,
      <<"f","o","o","t","e","r">>,
      <<"h","e","a","d","e","r">>,
      <<"p","r","o","m","o">>,
      <<"a","d","s">>,
      <<"a","d","v","e","r","t">> }

\* cid = (" ".join(cls) + " " + tid).lower(), for a node without an id.
Cid(node) == Lower(node.class \o <<" ">>)

\* A node _strip_layout_noise decomposes.
IsLayoutNoise(node) ==
    \/ node.name \in kill_tags
    \/ \E w \in bad_words : Contains(Cid(node), w)

\* _strip_layout_noise(container): the nodes that stay, at both depths.
_strip_layout_noise(nodes) ==
    LET kept == SelectSeq(nodes, LAMBDA n : ~IsLayoutNoise(n))
    IN  [i \in DOMAIN kept |->
            [kept[i] EXCEPT !.kids = SelectSeq(@, LAMBDA k : ~IsLayoutNoise(k))]]

\* node.get_text(" ", strip=True): the stripped, non-empty strings below the
\* node, joined by one space.
GetText(node) ==
    LET strings  == IF node.kids = <<>> THEN <<node.text>>
                    ELSE [i \in DOMAIN node.kids |-> node.kids[i].text]
        stripped == [i \in DOMAIN strings |-> Strip(strings[i])]
    IN  JoinSpace(SelectSeq(stripped, LAMBDA x : x # <<>>))

HeadingTags == {"h2", "h3", "h4"}

\* int(n.name[1])
LevelOf(name) == CASE name = "h2" -> 2 [] name = "h3" -> 3 [] name = "h4" -> 4

\* container.find_all(["h2", "h3", "h4"]): the heading nodes in document order,
\* each with the siblings that follow it under its parent.
RECURSIVE FindHeadings(_)
FindHeadings(nodes) ==
    IF nodes = <<>> THEN <<>>
    ELSE LET n == Head(nodes)
         IN  (IF n.name \in HeadingTags
              THEN <<[node |-> n, next_siblings |-> Tail(nodes)]>>
              ELSE FindHeadings(n.kids))
             \o FindHeadings(Tail(nodes))

\* The tags whose text is collected under a heading.
TextTags == {"p", "li", "ul", "ol", "div", "span"}

\* A chunk is kept when it is longer than this.
MinChunkLen == 10

\* The walk stops once this many chunks are collected.
MaxChunks == 20

\* h2 stops at the next h2; h3 at the next h2/h3; h4 at the next h2/h3/h4.
StopLevels(level) ==
    IF level = 2 THEN {"h2"}
    ELSE IF level = 3 THEN {"h2", "h3"}
    ELSE {"h2", "h3", "h4"}

\* The while loop over n.next_sibling.
RECURSIVE CollectChunks(_, _, _)
CollectChunks(siblings, stop_levels, chunks) ==
    IF siblings = <<>> THEN chunks
    ELSE LET cur == Head(siblings)
             txt == _clean_text(GetText(cur))
             got == IF cur.name \in TextTags /\ txt # <<>> /\ Len(txt) > MinChunkLen
                    THEN Append(chunks, txt)
                    ELSE chunks
         IN  IF cur.name \in stop_levels THEN chunks
             ELSE IF Len(got) >= MaxChunks THEN got
             ELSE CollectChunks(Tail(siblings), stop_levels, got)

\* d[key] = value on an insertion-ordered dict: a present key keeps its place.
DictPut(d, key, value) ==
    IF \E i \in DOMAIN d : d[i].key = key
    THEN [i \in DOMAIN d |-> IF d[i].key = key THEN [key |-> key, value |-> value] ELSE d[i]]
    ELSE Append(d, [key |-> key, value |-> value])

\* The first loop of _build_headings_and_sections: the ordered heading list.
BuildHeadings(found) ==
    LET all == [i \in DOMAIN found |->
                   [level |-> LevelOf(found[i].node.name),
                    text  |-> _clean_text(GetText(found[i].node))]]
    IN  SelectSeq(all, LAMBDA h : h.text # <<>>)

\* The second loop: section_texts[(level, title)] = the text under the heading.
RECURSIVE BuildSections(_, _)
BuildSections(found, section_texts) ==
    IF found = <<>> THEN section_texts
    ELSE LET n     == Head(found)
             level == LevelOf(n.node.name)
             title == _clean_text(GetText(n.node))
             chunks == CollectChunks(n.next_siblings, StopLevels(level), <<>>)
         IN  BuildSections(Tail(found),
                 IF title = <<>> THEN section_texts
                 ELSE DictPut(section_texts, <<level, title>>,
                              _clean_text(JoinSpace(chunks))))

W_faq == <<"f","a","q">>
W_frequently_asked == <<"f","r","e","q","u","e","n","t","l","y"," ","a","s","k","e","d">>

\* The bounds of the pattern [A-Z][^?]{10,120}\? and of a question heading.
MinQuestionBody == 10
MaxQuestionBody == 120
MaxQuestionHeading == 140

\* re.findall(r"([A-Z][^?]{10,120}\?)", blob), scanning from position i: a match
\* starts at an upper-case letter and ends at the first "?" after it, when 10
\* to 120 characters lie between them; the scan goes on after the match.
NextMark(blob, i) ==
    LET marks == {m \in (i + 1)..Len(blob) : blob[m] = "?"}
    IN  IF marks = {} THEN 0 ELSE CHOOSE m \in marks : \A m2 \in marks : m <= m2

MatchesAt(blob, i) ==
    /\ blob[i] \in SeqToSet(UpperChars)
    /\ NextMark(blob, i) # 0
    /\ NextMark(blob, i) - i - 1 >= MinQuestionBody
    /\ NextMark(blob, i) - i - 1 <= MaxQuestionBody

RECURSIVE FindQuestions(_, _)
FindQuestions(blob, i) ==
    LET from == {j \in i..Len(blob) : MatchesAt(blob, j)}
    IN  IF from = {} THEN <<>>
        ELSE LET j == CHOOSE x \in from : \A y \in from : x <= y
             IN  <<SubSeq(blob, j, NextMark(blob, j))>>
                 \o FindQuestions(blob, NextMark(blob, j) + 1)

\* section_texts.get(key, "")
DictGet(d, key) ==
    IF \E i \in DOMAIN d : d[i].key = key
    THEN d[CHOOSE i \in DOMAIN d : d[i].key = key].value
    ELSE <<>>

\* The set `questions` of _extract_faq_questions: the questions found under the
\* FAQ headings and the headings that look like questions.
FaqQuestionSet(headings, section_texts) ==
    LET faq_titles == SelectSeq(headings, LAMBDA h :
                          \/ Contains(Lower(h.text), W_faq)
                          \/ Contains(Lower(h.text), W_frequently_asked))
        pulled == UNION { {_clean_text(x) :
                              x \in SeqToSet(FindQuestions(
                                  DictGet(section_texts,
                                          <<faq_titles[i].level, faq_titles[i].text>>), 1))} :
                          i \in DOMAIN faq_titles }
        fallback == {_clean_text(headings[i].text) :
                        i \in {j \in DOMAIN headings :
                                  /\ "?" \in SeqToSet(headings[j].text)
                                  /\ Len(headings[j].text) <= MaxQuestionHeading}}
    IN  pulled \cup fallback

\* The strings of S in ascending order.
RECURSIVE Ascending(_)
Ascending(S) ==
    IF S = {} THEN <<>>
    ELSE LET least == CHOOSE x \in S : \A y \in S \ {x} : StrLess(x, y)
         IN  <<least>> \o Ascending(S \ {least})

\* The size up to which every order of a set is enumerated.
MaxPermuted == 4

\* The orders in which iterating a set may yield its elements: every order of
\* a small set; of a larger set, the ascending and the descending order.
IterationOrders(S) ==
    IF Cardinality(S) <= MaxPermuted
    THEN {f \in [1..Cardinality(S) -> S] : \A i, j \in DOMAIN f : i # j => f[i] # f[j]}
    ELSE LET up == Ascending(S)
         IN  {up, [i \in DOMAIN up |-> up[Len(up) + 1 - i]]}

\* The mutant: the list is returned as iterated, without out.sort().
SortStrings_NoSort(list) == list

\* out.sort() for a list of strings.
RECURSIVE SortStrings(_)
SortStrings(list) ==
    IF list = <<>> THEN <<>>
    ELSE LET rest == SortStrings(Tail(list))
             k    == Cardinality({i \in DOMAIN rest : StrLess(rest[i], Head(list))})
         IN  SubSeq(rest, 1, k) \o <<Head(list)>> \o SubSeq(rest, k + 1, Len(rest))

\* _extract_faq_questions, given the order in which the set is iterated.
_extract_faq_questions(iterated) ==
    SortStrings(SelectSeq(iterated, LAMBDA q : q # <<>>))

\* parsed["h2"], parsed["h3"], parsed["h4"]: parse_html derives them from the
\* ordered heading list by level, so a parsed record carries `headings` and
\* the three lists are read off it.
LevelTexts(parsed, level) ==
    LET at == SelectSeq(parsed.headings, LAMBDA h : h.level = level)
    IN  [i \in DOMAIN at |-> at[i].text]

\* f"{lvl}:{txt}"
SectionKey(key) ==
    <<CASE key[1] = 2 -> "2" [] key[1] = 3 -> "3" [] key[1] = 4 -> "4", ":">> \o key[2]

\* parse_html(html): the fields of the returned record that hold the outline.
parse_html(nodes, iterated) ==
    LET container     == _strip_layout_noise(nodes)
        found         == FindHeadings(container)
        headings      == BuildHeadings(found)
        section_texts == BuildSections(found, <<>>)
        page          == [headings |-> headings]
    IN  [headings      |-> headings,
         h2            |-> SelectSeq(LevelTexts(page, 2), LAMBDA x : x # <<>>),
         h3            |-> SelectSeq(LevelTexts(page, 3), LAMBDA x : x # <<>>),
         h4            |-> SelectSeq(LevelTexts(page, 4), LAMBDA x : x # <<>>),
         section_texts |-> [i \in DOMAIN section_texts |->
                               [key   |-> SectionKey(section_texts[i].key),
                                value |-> DictGet(section_texts, section_texts[i].key)]],
         faq_questions |-> _extract_faq_questions(iterated)]

\* The set parse_html's call of _extract_faq_questions builds for the markup.
QuestionsOf(nodes) ==
    LET found == FindHeadings(_strip_layout_noise(nodes))
    IN  FaqQuestionSet(BuildHeadings(found), BuildSections(found, <<>>))

(***************************************************************************)
(* analyzers/gaps.py: the junk filter                                      *)
(***************************************************************************)
\* The literal patterns; "more (articles|blogs)" is written as its two strings.
JUNK_HEADING_PATTERNS ==
    { <<"l","o","o","k","i","n","g"," ","t","o"," ","b","u","y">>,
      <<"l","o","o","k","i","n","g"," ","t","o"," ","r","e","n","t">>,
      <<"s","u","b","s","c","r","i","b","e">>,
      <<"n","e","w","s","l","e","t","t","e","r">>,
      <<"g","e","t"," ","i","n"," ","t","o","u","c","h">>,
      <<"c","o","n","t","a","c","t">>,
      <<"r","e","g","i","s","t","e","r">>,
      <<"d","o","w","n","l","o","a","d">>,
      <<"p","o","d","c","a","s","t">>,
      <<"l","a","t","e","s","t">>,
      <<"r","e","l","a","t","e","d">>,
      <<"r","e","c","o","m","m","e","n","d","e","d">>,
      <<"m","o","r","e"," ","a","r","t","i","c","l","e","s">>,
      <<"m","o","r","e"," ","b","l","o","g","s">> }

\* _is_junk_heading(h): some pattern occurs in the lower-cased heading.
_is_junk_heading(h) == \E pat \in JUNK_HEADING_PATTERNS : Contains(Lower(h), pat)

(***************************************************************************)
(* analyzers/analyzers/gaps.py                                             *)
(***************************************************************************)
\* _normalize(text) = " ".join((text or "").lower().split())
_normalize(text) == JoinSpace(Split(Lower(text)))

\* The mutant: only the h2 headings are read.
H2H3_OnlyH2(parsed) == LevelTexts(parsed, 2)

\* parsed.get("h2", []) + parsed.get("h3", [])
H2H3(parsed) == LevelTexts(parsed, 2) \o LevelTexts(parsed, 3)

\* The mutant: the primary's headings are compared as written, not normalized.
bayut_h_NotNormalized(parsed) == SeqToSet(H2H3(parsed))

\* bayut_h: the set of normalized h2/h3 headings of the primary page.
bayut_h(parsed) == {_normalize(h) : h \in SeqToSet(H2H3(parsed))}

\* A dict is an insertion-ordered list of <key, set of urls> entries.
HasKey(map, key) == \E i \in DOMAIN map : map[i].key = key

\* The mutant: an entry is appended even when the key is already present.
SetDefaultAdd_NoMerge(map, key, url) ==
    Append(map, [key |-> key, sources |-> {url}])

\* map.setdefault(key, set()).add(url)
SetDefaultAdd(map, key, url) ==
    IF HasKey(map, key)
    THEN [i \in DOMAIN map |->
            IF map[i].key = key
            THEN [map[i] EXCEPT !.sources = @ \cup {url}]
            ELSE map[i]]
    ELSE Append(map, [key |-> key, sources |-> {url}])

\* The inner loop over one competitor's h2 + h3 headings; empty keys are skipped.
RECURSIVE AddHeadings(_, _, _)
AddHeadings(map, hs, url) ==
    IF hs = <<>> THEN map
    ELSE LET key == _normalize(Head(hs))
         IN  AddHeadings(IF key = <<>> THEN map ELSE SetDefaultAdd(map, key, url),
                         Tail(hs), url)

\* The outer loop over the competitors, in input order.
RECURSIVE competitor_map(_, _)
competitor_map(map, comps) ==
    IF comps = <<>> THEN map
    ELSE competitor_map(AddHeadings(map, H2H3(Head(comps).parsed), Head(comps).url),
                        Tail(comps))

\* The mutant: the urls are sorted in descending order.
RECURSIVE Sorted_Descending(_)
Sorted_Descending(S) ==
    IF S = {} THEN <<>>
    ELSE LET m == CHOOSE x \in S : \A y \in S : x = y \/ StrLess(y, x)
         IN  <<m>> \o Sorted_Descending(S \ {m})

\* sorted(list(sources)) for a set of urls.
RECURSIVE Sorted(_)
Sorted(S) ==
    IF S = {} THEN <<>>
    ELSE LET m == CHOOSE x \in S : \A y \in S : x = y \/ StrLess(x, y)
         IN  <<m>> \o Sorted(S \ {m})

\* update_gaps(bayut_parsed, competitors)
update_gaps(bayut, comps) ==
    LET map  == competitor_map(<<>>, comps)
        bh   == bayut_h(bayut)
        miss == SelectSeq(map, LAMBDA e : e.key \notin bh)
    IN  [i \in DOMAIN miss |->
            [missing_section |-> miss[i].key, sources |-> Sorted(miss[i].sources)]]

\* sorted(items, key=len(sources), reverse=True): a stable sort, so entries of
\* equal count keep their insertion order.
InsertByCount(sorted, e) ==
    LET k == Cardinality({i \in DOMAIN sorted :
                 Cardinality(sorted[i].sources) >= Cardinality(e.sources)})
    IN  SubSeq(sorted, 1, k) \o <<e>> \o SubSeq(sorted, k + 1, Len(sorted))

RECURSIVE SortByCountDesc(_, _)
SortByCountDesc(sorted, rest) ==
    IF rest = <<>> THEN sorted
    ELSE SortByCountDesc(InsertByCount(sorted, Head(rest)), Tail(rest))

\* new_post_strategy(bayut_title, competitors)["recommended_sections"]
new_post_strategy(comps) ==
    LET section_map     == competitor_map(<<>>, comps)
        ranked_sections == SortByCountDesc(<<>>, section_map)
    IN  [i \in DOMAIN ranked_sections |->
            [recommended_section |-> ranked_sections[i].key,
             competitor_count    |-> Cardinality(ranked_sections[i].sources),
             sources             |-> Sorted(ranked_sections[i].sources)]]

(***************************************************************************)
(* Inputs of the gap functions                                             *)
(***************************************************************************)
S_Overview == <<"O","v","e","r","v","i","e","w">>
S_OverviewVar == <<" ","O","V","E","R","V","I","E","W"," ">>
S_AreaA == <<"A","r","e","a"," "," ","A">>
S_Pricing == <<"P","r","i","c","i","n","g">>

\* The number of competitor pages of one run.
MaxCompetitors == 2

\* The headings a page is built from: an h2, the same title as an h3 in another
\* case and spacing, an h3 of its own (a subheading when it follows the h2),
\* and an h4.
GapHeadingPool ==
    { [level |-> 2, text |-> S_Overview],
      [level |-> 3, text |-> S_OverviewVar],
      [level |-> 3, text |-> S_AreaA],
      [level |-> 4, text |-> S_Pricing] }

\* A competitor page has up to two headings, the primary page up to one.
PrimaryHeadingLists == {<<>>} \cup {<<h>> : h \in GapHeadingPool}

HeadingLists == PrimaryHeadingLists \cup {<<h, g>> : h, g \in GapHeadingPool}

\* The k-th url.
UrlOf(k) == <<"u", CodePoints[Ord["0"] + k]>>

\* The urls of n competitors: ascending, descending, or one url given n times.
UrlLists(n) ==
    { [k \in 1..n |-> UrlOf(k)], [k \in 1..n |-> UrlOf(n + 1 - k)], [k \in 1..n |-> UrlOf(1)] }

\* No heading is being normalized.
NormIdle == heading = <<>> /\ normalized = <<>>

\* No page is being parsed.
ParseIdle == html = <<>> /\ parses = <<>>

InitGaps ==
    /\ ArticleIdle
    /\ AppIdle
    /\ NormIdle
    /\ ParseIdle
    /\ bayut_parsed \in {[headings |-> hs] : hs \in PrimaryHeadingLists}
    /\ \E n \in 1..MaxCompetitors :
         \E urls \in UrlLists(n), pages \in [1..n -> HeadingLists] :
            competitors =
                [i \in 1..n |-> [url |-> urls[i], parsed |-> [headings |-> pages[i]]]]
    /\ call = "none"
    /\ missing = <<>>
    /\ recommendations = <<>>

\* UPDATE mode: app.py calls update_gaps(bayut_parsed, competitors).
UpdateGaps ==
    /\ call = "none"
    /\ call' = "update_gaps"
    /\ missing' = update_gaps(bayut_parsed, competitors)
    /\ UNCHANGED <<bayut_parsed, competitors, recommendations, normVars, parseVars, urlVars, articleVars, appVars>>

\* NEW POST mode: app.py calls new_post_strategy(bayut_title, competitors).
NewPostStrategy ==
    /\ call = "none"
    /\ call' = "new_post_strategy"
    /\ recommendations' = new_post_strategy(competitors)
    /\ UNCHANGED <<bayut_parsed, competitors, missing, normVars, parseVars, urlVars, articleVars, appVars>>

NextGaps == UpdateGaps \/ NewPostStrategy

SpecGaps == InitGaps /\ [][NextGaps]_vars

(***************************************************************************)
(* Claims about update_gaps and new_post_strategy                          *)
(***************************************************************************)
\* The normalized h2/h3 headings of a page, as the claims speak of them.
KeysOf(parsed) ==
    {_normalize(parsed.headings[i].text) :
        i \in {j \in DOMAIN parsed.headings : parsed.headings[j].level \in {2, 3}}}

PrimaryKeys == KeysOf(bayut_parsed)

RowsFor(k) == {i \in DOMAIN missing : missing[i].missing_section = k}

\* The position of the parent of heading i of a page: the nearest preceding
\* heading of a smaller level (0 when there is none).
ParentOf(hs, i) ==
    LET before == {j \in 1..(i - 1) : hs[j].level < hs[i].level}
    IN  IF before = {} THEN 0 ELSE CHOOSE j \in before : \A l \in before : l <= j

\* Heading i of competitor c is a subheading of a heading that is itself
\* absent from the primary page.
UnderMissingParent(c, i) ==
    LET hs == competitors[c].parsed.headings
        p  == ParentOf(hs, i)
    IN  /\ p # 0
        /\ _normalize(hs[p].text) # <<>>
        /\ _normalize(hs[p].text) # _normalize(hs[i].text)
        /\ _normalize(hs[p].text) \notin PrimaryKeys

\* The places where the key k occurs as an h2 or h3 of a competitor.
OccurrencesOf(k) ==
    {<<c, i>> \in UNION {{<<c, i>> : i \in DOMAIN competitors[c].parsed.headings} :
                            c \in DOMAIN competitors} :
        /\ competitors[c].parsed.headings[i].level \in {2, 3}
        /\ _normalize(competitors[c].parsed.headings[i].text) = k}

CompetitorKeys == UNION {KeysOf(competitors[c].parsed) : c \in DOMAIN competitors}

\* C1 (collapsing): a competitor heading absent from the primary page gets
\* exactly one row when it is the topmost absent heading of its subtree, and no
\* row when, wherever it occurs, it is a subheading of an absent heading.
C1_Collapsing ==
    call = "update_gaps" =>
        \A k \in CompetitorKeys \ (PrimaryKeys \cup {<<>>}) :
            IF \A o \in OccurrencesOf(k) : UnderMissingParent(o[1], o[2])
            THEN RowsFor(k) = {}
            ELSE Cardinality(RowsFor(k)) = 1

\* C2 (no duplicates): no two rows of update_gaps have the same normalized
\* missing_section, and no row lists a source twice.
C2_NoDuplicateRows ==
    call = "update_gaps" =>
        /\ \A i, j \in DOMAIN missing :
              i # j => _normalize(missing[i].missing_section)
                          # _normalize(missing[j].missing_section)
        /\ \A i \in DOMAIN missing :
              \A a, b \in DOMAIN missing[i].sources :
                  a # b => missing[i].sources[a] # missing[i].sources[b]

\* A row whose heading occurs in two competitors of the same url, once as an h2
\* and once as an h3 written in another case and spacing.
C2_Witness ==
    /\ call = "update_gaps"
    /\ Len(competitors) = 2
    /\ competitors[1].url = competitors[2].url
    /\ \E i \in DOMAIN missing :
         \E o1, o2 \in OccurrencesOf(missing[i].missing_section) :
            /\ o1[1] # o2[1]
            /\ competitors[o1[1]].parsed.headings[o1[2]].level = 2
            /\ competitors[o2[1]].parsed.headings[o2[2]].level = 3
            /\ competitors[o1[1]].parsed.headings[o1[2]].text
                  # competitors[o2[1]].parsed.headings[o2[2]].text

\* C3 (no gap): when every competitor has the same h2/h3 headings as the
\* primary page up to case and whitespace, update_gaps returns the empty list.
C3_NoGapWhenIdentical ==
    (/\ call = "update_gaps"
     /\ \A c \in DOMAIN competitors : KeysOf(competitors[c].parsed) = PrimaryKeys)
        => missing = <<>>

\* Two competitors with the primary's heading, one of them in another case and
\* spacing than the primary has it.
C3_Witness ==
    /\ call = "update_gaps"
    /\ PrimaryKeys # {}
    /\ Len(competitors) = 2
    /\ \A c \in DOMAIN competitors : KeysOf(competitors[c].parsed) = PrimaryKeys
    /\ \E c \in DOMAIN competitors :
         \E i \in DOMAIN competitors[c].parsed.headings :
            /\ competitors[c].parsed.headings[i].level \in {2, 3}
            /\ competitors[c].parsed.headings[i].text
                  \notin {bayut_parsed.headings[j].text : j \in DOMAIN bayut_parsed.headings}
    /\ missing = <<>>

\* The distinct non-empty normalized headings the competitors have at the levels.
KeysAtLevels(levels) ==
    { _normalize(competitors[c].parsed.headings[i].text) :
        <<c, i>> \in { o \in UNION {{<<c, i>> : i \in DOMAIN competitors[c].parsed.headings} :
                                        c \in DOMAIN competitors} :
                        competitors[o[1]].parsed.headings[o[2]].level \in levels } }
    \ {<<>>}

OneRowPerKey(keys) ==
    /\ {missing[i].missing_section : i \in DOMAIN missing} = keys
    /\ Len(missing) = Cardinality(keys)

C10_StrategyOrder ==
    call = "new_post_strategy" =>
        \A i, j \in DOMAIN recommendations :
            i < j =>
                \/ recommendations[i].competitor_count > recommendations[j].competitor_count
                \/ /\ recommendations[i].competitor_count = recommendations[j].competitor_count
                   /\ StrLess(recommendations[i].recommended_section,
                              recommendations[j].recommended_section)

\* The urls of the competitors that have the key k among their h2/h3 headings.
UrlsWith(k) ==
    {competitors[c].url : c \in {d \in DOMAIN competitors : k \in KeysOf(competitors[d].parsed)}}

\* C11 (exact-key presence): a competitor h2/h3 heading is reported missing
\* if and only if its normalized form is non-empty and is the normalized form
\* of no primary h2/h3 heading; the sources of a row are exactly the urls of
\* the competitors that have the heading, in ascending order.
C11_ExactKeyPresence ==
    call = "update_gaps" =>
        /\ {missing[r].missing_section : r \in DOMAIN missing}
              = CompetitorKeys \ (PrimaryKeys \cup {<<>>})
        /\ \A r \in DOMAIN missing :
              /\ SeqToSet(missing[r].sources) = UrlsWith(missing[r].missing_section)
              /\ \A a, b \in DOMAIN missing[r].sources :
                    a < b => StrLess(missing[r].sources[a], missing[r].sources[b])

\* Two competitors given in descending order of url: one heading of theirs is
\* on the primary page in another spelling and is not reported, another is
\* reported with both urls.
C11_Witness ==
    /\ call = "update_gaps"
    /\ Len(competitors) = 2
    /\ StrLess(competitors[2].url, competitors[1].url)
    /\ \E r \in DOMAIN missing : Len(missing[r].sources) = 2
    /\ \E c \in DOMAIN competitors :
         \E h \in DOMAIN competitors[c].parsed.headings :
            /\ competitors[c].parsed.headings[h].level \in {2, 3}
            /\ _normalize(competitors[c].parsed.headings[h].text) \in PrimaryKeys
            /\ competitors[c].parsed.headings[h].text
                  \notin {bayut_parsed.headings[j].text : j \in DOMAIN bayut_parsed.headings}

(***************************************************************************)
(* The heading normalizer applied to a heading, and again to its result    *)
(***************************************************************************)
\* The length of a heading given to the normalizer.
MaxHeadingLen == 3

NormChars == {"A", "b", "7", "?", ":", "&", "(", ")", "-", "|", "BULLET", "!", " ", "\t"}

GapsIdle ==
    /\ bayut_parsed = [headings |-> <<>>]
    /\ competitors = <<>>
    /\ call = "none"
    /\ missing = <<>>
    /\ recommendations = <<>>

InitNorm ==
    /\ ArticleIdle
    /\ AppIdle
    /\ GapsIdle
    /\ ParseIdle
    /\ heading \in UNION {[1..n -> NormChars] : n \in 0..MaxHeadingLen}
    /\ normalized = <<>>

\* _norm_heading is applied to the heading.
NormHeading ==
    /\ normalized = <<>>
    /\ normalized' = <<_norm_heading(heading)>>
    /\ UNCHANGED <<heading, gapVars, parseVars, urlVars, articleVars, appVars>>

\* _norm_heading is applied to its own result.
NormHeadingAgain ==
    /\ Len(normalized) = 1
    /\ normalized' = Append(normalized, _norm_heading(normalized[1]))
    /\ UNCHANGED <<heading, gapVars, parseVars, urlVars, articleVars, appVars>>

NextNorm == NormHeading \/ NormHeadingAgain

SpecNorm == InitNorm /\ [][NextNorm]_vars

\* C5 (idempotence): normalizing a normalized heading changes nothing.
C5_NormHeadingIdempotent ==
    Len(normalized) = 2 => normalized[2] = normalized[1]

\* A heading the normalizer changes (a dash between words, an upper-case
\* letter, a removed character), normalized twice.
C5_Witness ==
    /\ Len(normalized) = 2
    /\ normalized[1] # heading
    /\ Len(normalized[1]) = 3
    /\ \E i \in DOMAIN heading : heading[i] \in DashChars

\* The characters the normalizer is to preserve.
Preserved == SeqToSet(LowerChars) \cup Digits \cup {"?", "&", "(", ")", ":"}

\* The text a is in the text b, in order, not necessarily contiguously.
RECURSIVE IsSubsequence(_, _)
IsSubsequence(a, b) ==
    IF a = <<>> THEN TRUE
    ELSE IF b = <<>> THEN FALSE
    ELSE IF Head(a) = Head(b) THEN IsSubsequence(Tail(a), Tail(b))
    ELSE IsSubsequence(a, Tail(b))

\* C24 (character contract): the letters (lowercased), digits, '?', '&', '(',
\* ')' and ':' of the heading are in the normalized heading in the same order;
\* the normalized heading has no dash, pipe or bullet, no space at either end
\* and no two spaces in a row.
C24_CharacterContract ==
    Len(normalized) >= 1 =>
        LET out == normalized[1]
        IN  /\ IsSubsequence(SelectSeq(Lower(heading), LAMBDA c : c \in Preserved), out)
            /\ \A i \in DOMAIN out : out[i] \notin DashChars
            /\ out # <<>> => (out[1] # " " /\ out[Len(out)] # " ")
            /\ \A i \in DOMAIN out : i < Len(out) => ~(out[i] = " " /\ out[i + 1] = " ")

\* An upper-case letter, a dash and a preserved punctuation mark, normalized.
C24_Witness ==
    /\ Len(normalized) >= 1
    /\ \E i, j, k \in DOMAIN heading :
          /\ heading[i] \in SeqToSet(UpperChars)
          /\ heading[j] \in DashChars
          /\ heading[k] \in {"?", "&", "(", ")", ":"}
    /\ Len(normalized[1]) = 3

(***************************************************************************)
(* parse_html called on one markup, and called on it again                 *)
(***************************************************************************)
T_Cost == <<"W","h","a","t"," ","i","s"," ","t","h","e"," ","c","o","s","t","?">>
T_Safe == <<"I","s"," ","i","t"," ","s","a","f","e","?">>
T_Subscribe == <<"S","u","b","s","c","r","i","b","e"," ","t","o"," ","o","u","r"," ","n","e","w","s","l","e","t","t","e","r">>
T_Faqs == <<"F","A","Q","s">>
T_Para == <<"I","s"," ","t","h","e"," ","a","r","e","a"," ","g","o","o","d"," ","f","o","r"," ","f","a","m","i","l","i","e","s","?"," ","Y","e","s",".">>
C_Related == <<"r","e","l","a","t","e","d","-","p","o","s","t","s">>
T_Dashes == <<"-","-"," ","|">>
T_SafeTitle == <<"I","s"," ","I","t"," ","S","a","f","e","?">>
T_CostVaries == <<"C","o","s","t","?"," ","I","t"," ","v","a","r","i","e","s">>

\* The number of nodes in the main container, and of calls of parse_html.
MaxNodes == 3
MaxParses == 2

Leaf(name, text) == [name |-> name, class |-> <<>>, text |-> text, kids |-> <<>>]

Block(class, kids) == [name |-> "div", class |-> class, text |-> <<>>, kids |-> kids]

\* The i-th of the distinct question headings of a long page.
QuestionHeading(i) ==
    Leaf("h2", <<"Q", LowerChars[((i - 1) \div Len(LowerChars)) + 1],
                      LowerChars[((i - 1) % Len(LowerChars)) + 1], "?">>)

\* The number of question headings of the longest page.
ManyQuestions == 26

\* A page made of n distinct question headings.
LongPage(n) == [i \in 1..n |-> QuestionHeading(i)]

\* Two question headings, a subscribe prompt, a FAQ heading, a paragraph with a
\* question, a related-posts block with a heading, a div with a heading and a
\* paragraph inside, the second question as an h4 and in title case, a
\* heading of dashes, and a heading with a question mark in the middle.
NodePool ==
    { Leaf("h2", T_Cost),
      Leaf("h3", T_Safe),
      Leaf("h4", T_Safe),
      Leaf("h3", T_Dashes),
      Leaf("h2", T_SafeTitle),
      Leaf("h3", T_CostVaries),
      Leaf("h2", T_Subscribe),
      Leaf("h2", T_Faqs),
      Leaf("p", T_Para),
      Block(C_Related, <<Leaf("h3", T_Safe)>>),
      Block(<<>>, <<Leaf("h3", T_Safe), Leaf("p", T_Para)>>) }

InitParse ==
    /\ ArticleIdle
    /\ AppIdle
    /\ GapsIdle
    /\ NormIdle
    /\ html \in UNION {[1..n -> NodePool] : n \in 0..MaxNodes}
                \cup {LongPage(n) : n \in (ManyQuestions - 1)..ManyQuestions}
    /\ parses = <<>>

\* One call of parse_html(html); the set of questions is iterated in some order.
ParseHtml ==
    /\ Len(parses) < MaxParses
    /\ \E iterated \in IterationOrders(QuestionsOf(html)) :
          parses' = Append(parses, parse_html(html, iterated))
    /\ UNCHANGED <<html, gapVars, normVars, urlVars, articleVars, appVars>>

NextParse == ParseHtml

SpecParse == InitParse /\ [][NextParse]_vars

(***************************************************************************)
(* Claims about parse_html                                                 *)
(***************************************************************************)
\* The noise filter of the claims: a boilerplate phrase occurs in the heading,
\* or its normalized form has fewer than 6 characters.
IsNoise(h) == _is_junk_heading(h) \/ Len(_norm_heading(h)) < 6

\* The heading titles a parsed record holds: in `headings`, in the h2/h3/h4
\* lists, and as keys "<level>:<title>" of section_texts.
TitlesIn(parsed) ==
    {parsed.headings[i].text : i \in DOMAIN parsed.headings}
    \cup SeqToSet(parsed.h2) \cup SeqToSet(parsed.h3) \cup SeqToSet(parsed.h4)
    \cup {SubSeq(parsed.section_texts[i].key, 3, Len(parsed.section_texts[i].key)) :
             i \in DOMAIN parsed.section_texts}

\* C4 (noise exclusion): no heading the noise filter classifies as noise is in
\* the structure parse_html returns.
C4_NoNoiseInStructure ==
    \A r \in DOMAIN parses : \A h \in TitlesIn(parses[r]) : ~IsNoise(h)

\* C6 (determinism): two calls of parse_html on the same markup return the same
\* headings, section texts and FAQ questions, in the same order.
C6_ParseDeterministic ==
    \A i, j \in DOMAIN parses : parses[i] = parses[j]

\* Two calls on a page with sections that have text and several questions.
C6_Witness ==
    /\ Len(parses) = 2
    /\ Len(parses[1].faq_questions) >= 2
    /\ Len(parses[1].headings) >= 2
    /\ \E i \in DOMAIN parses[1].section_texts : parses[1].section_texts[i].value # <<>>

\* The headings of the page that parse_html retains, in document order, each
\* with the siblings that follow it.
Occurrences(nodes) ==
    SelectSeq(FindHeadings(_strip_layout_noise(nodes)),
              LAMBDA f : _clean_text(GetText(f.node)) # <<>>)

\* The title of an occurrence, and the text the sibling walk collects for it.
TitleOf(f) == _clean_text(GetText(f.node))

AttributedTo(f) ==
    _clean_text(JoinSpace(CollectChunks(f.next_siblings,
                                        StopLevels(LevelOf(f.node.name)), <<>>)))

\* The title of an entry of the returned section_texts: its key without "L:".
SectionTitle(entry) == SubSeq(entry.key, 3, Len(entry.key))

\* The entries of the returned section_texts whose title normalizes to key.
SectionsFor(parsed, key) ==
    {i \in DOMAIN parsed.section_texts :
        _norm_heading(SectionTitle(parsed.section_texts[i])) = key}

\* value holds the text a and, after it, the text b.
Follows(value, a, b) ==
    \E k \in 0..Len(value) :
        /\ Contains(SubSeq(value, 1, k), a)
        /\ Contains(SubSeq(value, k + 1, Len(value)), b)

\* C16 (duplicates merged): when two headings of the page normalize to the same
\* non-empty key, the returned structure holds one section for that key, and
\* its text holds the text of the first occurrence followed by the text of the
\* later one.
C16_DuplicatesMerged ==
    \A r \in DOMAIN parses :
        LET occ == Occurrences(html)
        IN  \A i, j \in DOMAIN occ :
                (/\ i < j
                 /\ _norm_heading(TitleOf(occ[i])) = _norm_heading(TitleOf(occ[j]))
                 /\ _norm_heading(TitleOf(occ[i])) # <<>>)
                => LET at == SectionsFor(parses[r], _norm_heading(TitleOf(occ[i])))
                   IN  /\ Cardinality(at) = 1
                       /\ \A k \in at :
                              Follows(parses[r].section_texts[k].value,
                                      AttributedTo(occ[i]), AttributedTo(occ[j]))

\* The key "<level>:<title>" under which an entry of `headings` is stored in
\* section_texts.
HeadingKey(h) == SectionKey(<<h.level, h.text>>)

\* Every entry of `headings` has its entry in section_texts, and every key of
\* section_texts is the key of an entry of `headings`.
HeadingsMatchSections(parsed) ==
    /\ \A i \in DOMAIN parsed.headings :
          \E k \in DOMAIN parsed.section_texts :
              parsed.section_texts[k].key = HeadingKey(parsed.headings[i])
    /\ \A k \in DOMAIN parsed.section_texts :
          \E i \in DOMAIN parsed.headings :
              parsed.section_texts[k].key = HeadingKey(parsed.headings[i])

\* C17 (structure consistency): the ordered heading list of a parsed record
\* holds no two entries with the same key, and its entries and the keys of
\* section_texts correspond to each other.
C17_StructureConsistent ==
    \A r \in DOMAIN parses :
        /\ \A i, j \in DOMAIN parses[r].headings :
              i # j => HeadingKey(parses[r].headings[i]) # HeadingKey(parses[r].headings[j])
        /\ HeadingsMatchSections(parses[r])

\* C18 (empty keys): no heading whose normalized title is the empty string is
\* in `headings`, in the h2/h3/h4 lists or in section_texts of a parsed record.
C18_NoEmptyKeys ==
    \A r \in DOMAIN parses : \A h \in TitlesIn(parses[r]) : _norm_heading(h) # <<>>

\* The nodes of the page that carry text, in document order.
RECURSIVE Flat(_)
Flat(nodes) ==
    IF nodes = <<>> THEN <<>>
    ELSE (IF Head(nodes).kids = <<>> THEN <<Head(nodes)>> ELSE Flat(Head(nodes).kids))
         \o Flat(Tail(nodes))

\* The position, in document order, of the first heading after position i
\* whose level is at most the level of the heading at i; past the end if none.
Boundary(doc, i) ==
    LET stops == {j \in DOMAIN doc :
                     /\ j > i
                     /\ doc[j].name \in HeadingTags
                     /\ LevelOf(doc[j].name) <= LevelOf(doc[i].name)}
    IN  IF stops = {} THEN Len(doc) + 1
        ELSE CHOOSE j \in stops : \A k \in stops : j <= k

\* The heading at position i has a non-empty key, and no later heading of the
\* page has its level and title: the returned section of its key holds its
\* text.
OwnsSection(doc, i) ==
    /\ doc[i].name \in HeadingTags
    /\ _norm_heading(doc[i].text) # <<>>
    /\ \A j \in DOMAIN doc :
          j > i => ~(doc[j].name = doc[i].name
                     /\ _clean_text(doc[j].text) = _clean_text(doc[i].text))

\* C19 (attribution boundary): the text of the section of a retained heading H
\* of level L holds no text of the page that comes, in document order, after
\* the next heading of level at most L, unless the same text also stands
\* between H and that heading.
C19_AttributionBoundary ==
    \A r \in DOMAIN parses :
        LET doc == Flat(_strip_layout_noise(html))
        IN  \A i \in DOMAIN doc : OwnsSection(doc, i) =>
                \A k \in DOMAIN parses[r].section_texts :
                    parses[r].section_texts[k].key
                        = SectionKey(<<LevelOf(doc[i].name), _clean_text(doc[i].text)>>)
                    => \A j \in DOMAIN doc :
                          (/\ j > Boundary(doc, i)
                           /\ doc[j].name \notin HeadingTags
                           /\ _clean_text(doc[j].text) # <<>>
                           /\ \A m \in DOMAIN doc :
                                 (i < m /\ m < Boundary(doc, i))
                                 => ~Contains(_clean_text(doc[m].text), _clean_text(doc[j].text)))
                          => ~Contains(parses[r].section_texts[k].value,
                                       _clean_text(doc[j].text))

\* C20 (FAQ cap): parse_html returns at most 25 FAQ questions for a page.
C20_FaqCap ==
    \A r \in DOMAIN parses : Len(parses[r].faq_questions) <= 25

\* C21 (FAQ de-duplication): the FAQ question list of a page holds no two
\* questions whose normalized text is equal.
C21_FaqDedupedByNormalizedText ==
    \A r \in DOMAIN parses :
        \A i, j \in DOMAIN parses[r].faq_questions :
            i # j => _norm_heading(parses[r].faq_questions[i])
                        # _norm_heading(parses[r].faq_questions[j])

\* The last character of a text is the question mark.
EndsWithQuestionMark(s) == s # <<>> /\ s[Len(s)] = "?"

\* C22 (FAQ fallback): a retained heading is among the FAQ questions of the
\* page if it ends with the question mark, and only if it does.
C22_FaqFallbackFromHeadings ==
    \A r \in DOMAIN parses :
        \A i \in DOMAIN parses[r].headings :
            EndsWithQuestionMark(parses[r].headings[i].text)
            <=> parses[r].headings[i].text \in SeqToSet(parses[r].faq_questions)

(***************************************************************************)
(* analyzers/gaps.py: the fixed-row gap engine                             *)
(*                                                                         *)
(* The markup of a page is a list of nodes [name, text, faq]: a heading or *)
(* paragraph carries text; a script node of type application/ld+json       *)
(* carries the names of the entities of its FAQPage in `faq`.              *)
(***************************************************************************)
\* _clean(s) = re.sub(r"\s+", " ", s or "").strip()
_clean(s) == Strip(SubRuns(s, Whitespace, " "))

\* _norm(s) = re.sub(r"[^a-z0-9\s]", "", _clean(s).lower())
_norm(s) == KeepOnly(Lower(_clean(s)), SeqToSet(LowerChars) \cup Digits \cup Whitespace)

DUBAI_AREAS ==
    << <<"J","L","T">>,
       <<"J","u","m","e","i","r","a","h"," ","L","a","k","e","s"," ","T","o","w","e","r","s">>,
       <<"D","o","w","n","t","o","w","n"," ","D","u","b","a","i">>,
       <<"D","u","b","a","i"," ","M","a","r","i","n","a">>,
       <<"B","u","s","i","n","e","s","s"," ","B","a","y">>,
       <<"D","I","F","C">>,
       <<"P","a","l","m"," ","J","u","m","e","i","r","a","h">>,
       <<"J","B","R">>,
       <<"D","u","b","a","i"," ","H","i","l","l","s"," ","E","s","t","a","t","e">>,
       <<"A","r","a","b","i","a","n"," ","R","a","n","c","h","e","s">>,
       <<"D","e","i","r","a">>,
       <<"D","u","b","a","i"," ","C","r","e","e","k"," ","H","a","r","b","o","u","r">>,
       <<"B","u","s","i","n","e","s","s"," ","B","a","y">> >>

\* The regex class \w.
IsWordChar(c) == c \in SeqToSet(LowerChars) \cup SeqToSet(UpperChars) \cup Digits \cup {"_"}

\* \bw\b matches at position i of s (w begins and ends with a word character).
WordAt(s, i, w) ==
    /\ i + Len(w) - 1 <= Len(s)
    /\ SubSeq(s, i, i + Len(w) - 1) = w
    /\ (i = 1 \/ ~IsWordChar(s[i - 1]))
    /\ (i + Len(w) - 1 = Len(s) \/ ~IsWordChar(s[i + Len(w)]))

\* The three shapes of the patterns: a literal, \bword\b, and first.*second.
Sub(a) == [kind |-> "sub", a |-> a, b |-> <<>>]
Word(a) == [kind |-> "word", a |-> a, b |-> <<>>]
Then(a, b) == [kind |-> "then", a |-> a, b |-> b]

\* re.search(p, s)
Search(p, s) ==
    IF p.kind = "sub" THEN Contains(s, p.a)
    ELSE IF p.kind = "word" THEN \E i \in DOMAIN s : WordAt(s, i, p.a)
    ELSE \E i \in 0..(Len(s) - Len(p.a)) :
            /\ SubSeq(s, i + 1, i + Len(p.a)) = p.a
            /\ Contains(SubSeq(s, i + Len(p.a) + 1, Len(s)), p.b)

\* _has_heading_like(headings, patterns)
_has_heading_like(headings, patterns) ==
    \E i \in DOMAIN headings : \E p \in patterns : Search(p, Lower(headings[i]))

\* len(re.findall(r"\b" + k + r"\b", t))
CountWord(s, k) == Cardinality({i \in DOMAIN s : WordAt(s, i, k)})

\* _count_keywords(text, keywords)
RECURSIVE _count_keywords(_, _)
_count_keywords(text, keywords) ==
    IF keywords = <<>> THEN 0
    ELSE CountWord(Lower(text), Head(keywords)) + _count_keywords(text, Tail(keywords))

\* The areas found in the text, in the order of DUBAI_AREAS, each once.
RECURSIVE FoundAreas(_, _, _)
FoundAreas(text, areas, found) ==
    IF areas = <<>> THEN found
    ELSE FoundAreas(text, Tail(areas),
            IF /\ \E i \in DOMAIN text : WordAt(Lower(text), i, Lower(Head(areas)))
               /\ Head(areas) \notin SeqToSet(found)
            THEN Append(found, Head(areas))
            ELSE found)

\* The number of areas a comparison names.
MaxAreas == 3

\* _extract_area_mentions(text)
_extract_area_mentions(text) ==
    LET found == SelectSeq(FoundAreas(text, DUBAI_AREAS, <<>>),
                           LAMBDA x : _norm(x) # _norm(DUBAI_AREAS[5]))
    IN  SubSeq(found, 1, IF Len(found) < MaxAreas THEN Len(found) ELSE MaxAreas)

P_Comparison ==
    { Word(<<"c","o","m","p","a","r","i","s","o","n">>),
      Word(<<"v","s">>),
      Then(<<"o","t","h","e","r"," ">>, <<"n","e","i","g","h","b","o","r","h","o","o","d">>),
      Then(<<"o","t","h","e","r"," ">>, <<"n","e","i","g","h","b","o","u","r","h","o","o","d">>) }

P_Faq ==
    { Word(<<"f","a","q">>),
      Sub(<<"f","r","e","q","u","e","n","t","l","y"," ","a","s","k","e","d">>) }

\* _competitor_has_comparison(comp)
_competitor_has_comparison(comp) ==
    \/ _has_heading_like(comp.headings, P_Comparison)
    \/ /\ Len(_extract_area_mentions(comp.text)) >= 1
       /\ _count_keywords(comp.text, <<<<"c","o","m","p","a","r","i","s","o","n">>, <<"v","s">>, <<"v","e","r","s","u","s">>>>) >= 1

\* _bayut_has_comparison(bayut)
_bayut_has_comparison(bayut) == _has_heading_like(bayut.headings, P_Comparison)

\* _competitor_has_connectivity(comp)
_competitor_has_connectivity(comp) ==
    \/ _has_heading_like(comp.headings,
      { Sub(<<"c","o","n","n","e","c","t">>),
        Sub(<<"l","o","c","a","t","i","o","n">>),
        Sub(<<"g","e","t","t","i","n","g"," ","a","r","o","u","n","d">>),
        Sub(<<"t","r","a","n","s","p","o","r","t">>) })
    \/ _count_keywords(comp.text,
          <<<<"m","e","t","r","o">>, <<"r","o","a","d">>, <<"r","o","a","d","s">>, <<"h","i","g","h","w","a","y">>, <<"a","c","c","e","s","s">>, <<"c","o","n","n","e","c","t","i","v","i","t","y">>, <<"c","o","m","m","u","t","e">>>>) >= 4

\* _bayut_has_connectivity_expanded(bayut)
_bayut_has_connectivity_expanded(bayut) ==
    _has_heading_like(bayut.headings,
      { Sub(<<"c","o","n","n","e","c","t">>),
        Sub(<<"g","e","t","t","i","n","g"," ","a","r","o","u","n","d">>),
        Sub(<<"t","r","a","n","s","p","o","r","t">>),
        Sub(<<"m","e","t","r","o">>),
        Sub(<<"r","o","a","d">>) })

\* _competitor_has_extras_within_pros(comp)
_competitor_has_extras_within_pros(comp) ==
    _count_keywords(comp.text,
        <<<<"m","i","c","h","e","l","i","n">>, <<"n","i","g","h","t","l","i","f","e">>, <<"f","i","n","e"," ","d","i","n","i","n","g">>, <<"r","e","s","t","a","u","r","a","n","t","s">>, <<"n","e","t","w","o","r","k","i","n","g">>, <<"l","i","f","e","s","t","y","l","e">>>>) >= 3

\* _competitor_has_prefer_despite_cons(comp)
_competitor_has_prefer_despite_cons(comp) ==
    \/ _has_heading_like(comp.headings,
      { Then(<<"w","h","y"," ">>, <<"p","r","e","f","e","r">>),
        Sub(<<"d","e","s","p","i","t","e">>),
        Sub(<<"s","t","i","l","l"," ","c","h","o","o","s","e">>),
        Then(<<"w","h","o"," ">>, <<"s","u","i","t">>) })
    \/ _count_keywords(comp.text,
          <<<<"d","e","s","p","i","t","e">>, <<"s","t","i","l","l"," ","c","h","o","o","s","e">>, <<"w","o","r","t","h"," ","i","t">>, <<"s","u","i","t","s">>, <<"w","h","o"," ","s","h","o","u","l","d">>>>) >= 3

\* _competitor_has_final_thoughts(comp)
_competitor_has_final_thoughts(comp) ==
    _has_heading_like(comp.headings,
      { Sub(<<"f","i","n","a","l"," ","t","h","o","u","g","h","t","s">>),
        Sub(<<"i","n"," ","s","u","m","m","a","r","y">>),
        Sub(<<"w","r","a","p"," ","u","p">>) })

\* _competitor_has_conclusion(comp)
_competitor_has_conclusion(comp) ==
    _has_heading_like(comp.headings,
      { Word(<<"c","o","n","c","l","u","s","i","o","n">>),
        Sub(<<"i","n"," ","c","o","n","c","l","u","s","i","o","n">>) })

\* _competitor_has_detailed_pros(comp)
_competitor_has_detailed_pros(comp) ==
    /\ _has_heading_like(comp.headings,
      { Word(<<"p","r","o","s">>),
        Sub(<<"a","d","v","a","n","t","a","g","e","s">>),
        Sub(<<"b","e","n","e","f","i","t","s">>) })
    /\ _count_keywords(comp.text, <<<<"p","r","o","s">>, <<"a","d","v","a","n","t","a","g","e","s">>, <<"b","e","n","e","f","i","t","s">>>>) >= 6

\* _competitor_has_detailed_cons(comp)
_competitor_has_detailed_cons(comp) ==
    /\ _has_heading_like(comp.headings,
      { Word(<<"c","o","n","s">>),
        Sub(<<"d","i","s","a","d","v","a","n","t","a","g","e","s">>),
        Sub(<<"d","r","a","w","b","a","c","k","s">>) })
    /\ _count_keywords(comp.text,
          <<<<"c","o","n","s">>, <<"d","i","s","a","d","v","a","n","t","a","g","e","s">>, <<"d","r","a","w","b","a","c","k","s">>, <<"t","r","a","f","f","i","c">>, <<"c","o","n","g","e","s","t","i","o","n">>, <<"h","i","g","h"," ","c","o","s","t">>, <<"c","r","o","w","d","e","d">>, <<"g","r","e","e","n"," ","s","p","a","c","e">>>>) >= 6

\* comp["text"].count("?")
CountChar(s, c) == Cardinality({i \in DOMAIN s : s[i] = c})

\* _competitor_has_faqs(comp)
_competitor_has_faqs(comp) ==
    \/ comp.faq_questions # <<>>
    \/ _has_heading_like(comp.headings, P_Faq)
    \/ /\ CountChar(comp.text, "?") >= 3
       /\ _count_keywords(comp.text, <<<<"c","o","s","t"," ","o","f"," ","l","i","v","i","n","g">>, <<"s","c","h","o","o","l","s">>, <<"s","a","f","e","t","y">>, <<"m","a","r","k","e","t">>>>) >= 1

\* _bayut_has_faqs(bayut)
_bayut_has_faqs(bayut) ==
    bayut.faq_questions # <<>> \/ _has_heading_like(bayut.headings, P_Faq)

\* The texts of the rows: "Missing header" and "What the header contains".
H_Comparison ==
    <<"C","o","m","p","a","r","i","s","o","n"," ","w","i","t","h"," ","O","t","h","e","r"," ",
      "D","u","b","a","i"," ","N","e","i","g","h","b","o","r","h","o","o","d","s">>

H_Connectivity ==
    <<"L","o","c","a","t","i","o","n"," ","&"," ","C","o","n","n","e","c","t","i","v","i","t",
      "y"," ","(","e","x","p","a","n","d","e","d",")">>

D_Connectivity ==
    <<"C","o","m","p","e","t","i","t","o","r"," ","e","x","p","l","a","i","n","s"," ","m","o",
      "r","e"," ","s","p","e","c","i","f","i","c"," ","t","r","a","n","s","p","o","r","t"," ",
      "l","i","n","k","s"," ","a","n","d"," ","c","o","n","n","e","c","t","i","v","i","t","y",
      " ","b","e","n","e","f","i","t","s"," ","(","m","e","t","r","o","/","r","o","a","d","s",
      "/","a","c","c","e","s","s",")"," ","b","e","y","o","n","d"," ","a"," ","b","a","s","i",
      "c"," ","l","o","c","a","t","i","o","n"," ","o","v","e","r","v","i","e","w",".">>

H_Extras ==
    <<"E","x","t","r","a","s"," ","w","i","t","h","i","n"," ","P","r","o","s">>

D_Extras ==
    <<"L","i","s","t","s"," ","l","i","f","e","s","t","y","l","e","-","d","r","i","v","e","n",
      " ","a","d","v","a","n","t","a","g","e","s"," ","(","e",".","g",".",","," ","d","i","n",
      "i","n","g",","," ","n","i","g","h","t","l","i","f","e",","," ","n","e","t","w","o","r",
      "k","i","n","g",","," ","m","o","d","e","r","n"," ","u","r","b","a","n"," ","a","p","p",
      "e","a","l",")"," ","t","h","a","t"," ","a","r","e"," ","n","o","t"," ","c","o","v","e",
      "r","e","d"," ","o","n"," ","B","a","y","u","t",".">>

H_Prefer ==
    <<"A","d","d","i","t","i","o","n","a","l"," ","R","e","a","s","o","n","s"," ","S","o","m",
      "e"," ","P","r","e","f","e","r"," ","t","h","e"," ","A","r","e","a">>

D_Prefer ==
    <<"E","x","p","l","a","i","n","s"," ","w","h","y"," ","s","o","m","e"," ","r","e","s","i",
      "d","e","n","t","s"," ","s","t","i","l","l"," ","c","h","o","o","s","e"," ","t","h","e",
      " ","a","r","e","a"," ","d","e","s","p","i","t","e"," ","t","h","e"," ","d","o","w","n",
      "s","i","d","e","s",","," ","f","o","c","u","s","i","n","g"," ","o","n"," ","t","r","a",
      "d","e","-","o","f","f","s"," ","a","n","d"," ","w","h","o"," ","i","t"," ","s","u","i",
      "t","s",".">>

H_FinalThoughts ==
    <<"F","i","n","a","l"," ","T","h","o","u","g","h","t","s">>

D_FinalThoughts ==
    <<"A"," ","f","i","n","a","l"," ","s","u","m","m","a","r","i","z","i","n","g"," ","b","l",
      "o","c","k"," ","w","e","i","g","h","i","n","g"," ","p","r","o","s"," ","&"," ","c","o",
      "n","s"," ","a","n","d"," ","d","e","s","c","r","i","b","i","n","g"," ","s","u","i","t",
      "a","b","i","l","i","t","y"," ","f","o","r"," ","d","i","f","f","e","r","e","n","t"," ",
      "r","e","s","i","d","e","n","t"," ","t","y","p","e","s",".">>

H_Conclusion ==
    <<"C","o","n","c","l","u","s","i","o","n"," ","S","u","m","m","a","r","y">>

D_Conclusion ==
    <<"A"," ","c","o","n","c","l","u","d","i","n","g"," ","w","r","a","p","-","u","p"," ","t",
      "h","a","t"," ","h","e","l","p","s"," ","r","e","a","d","e","r","s"," ","d","e","c","i",
      "d","e"," ","i","f"," ","t","h","e"," ","a","r","e","a"," ","f","i","t","s"," ","t","h",
      "e","i","r"," ","n","e","e","d","s",".">>

H_DetailedPros ==
    <<"D","e","t","a","i","l","e","d"," ","LDQUOTE","P","r","o","s","RDQUOTE"," ","s","u","b",
      "-","s","e","c","t","i","o","n","s">>

D_DetailedPros ==
    <<"C","o","m","p","e","t","i","t","o","r"," ","b","r","e","a","k","s"," ","p","r","o","s",
      " ","i","n","t","o"," ","c","l","e","a","r","e","r"," ","t","h","e","m","e","s"," ","(",
      "l","o","c","a","t","i","o","n",","," ","a","m","e","n","i","t","i","e","s",","," ","c",
      "o","m","m","u","n","i","t","y",","," ","t","r","a","n","s","p","o","r","t","a","t","i",
      "o","n",","," ","f","a","m","i","l","y"," ","i","n","f","r","a","s","t","r","u","c","t",
      "u","r","e",")"," ","b","e","y","o","n","d"," ","B","a","y","u","t","RSQUOTE","s"," ","c",
      "o","v","e","r","a","g","e",".">>

H_DetailedCons ==
    <<"D","e","t","a","i","l","e","d"," ","LDQUOTE","C","o","n","s","RDQUOTE"," ","s","u","b",
      "-","s","e","c","t","i","o","n","s">>

D_DetailedCons ==
    <<"E","x","p","l","i","c","i","t"," ","b","r","e","a","k","d","o","w","n"," ","o","f"," ",
      "c","o","n","s"," ","s","u","c","h"," ","a","s"," ","t","r","a","f","f","i","c",","," ",
      "c","o","s","t",","," ","c","r","o","w","d","i","n","g",","," ","a","n","d"," ","l","i",
      "m","i","t","e","d"," ","g","r","e","e","n"," ","s","p","a","c","e","s"," ","t","h","a",
      "t"," ","B","a","y","u","t"," ","d","o","e","s"," ","n","o","t"," ","c","o","v","e","r",
      " ","i","n"," ","t","h","e"," ","s","a","m","e"," ","d","e","p","t","h",".">>

H_Faq ==
    <<"F","A","Q","s"," ","(","m","i","s","s","i","n","g"," ","q","u","e","s","t","i","o","n",
      "s",")">>

D_Faq ==
    <<"C","o","m","p","e","t","i","t","o","r"," ","i","n","c","l","u","d","e","s"," ","F","A",
      "Q","s"," ","a","r","o","u","n","d"," ","c","o","s","t"," ","o","f"," ","l","i","v","i",
      "n","g",","," ","s","c","h","o","o","l","s",","," ","s","a","f","e","t","y",","," ","a",
      "n","d"," ","t","h","e"," ","l","o","c","a","l"," ","m","a","r","k","e","t"," ","t","h",
      "a","t"," ","B","a","y","u","t"," ","d","o","e","s"," ","n","o","t"," ","a","d","d","r",
      "e","s","s"," ","a","s"," ","F","A","Q","s",".">>

D_FaqExtra ==
    <<"C","o","m","p","e","t","i","t","o","r"," ","c","o","v","e","r","s"," ","a","d","d","i",
      "t","i","o","n","a","l"," ","F","A","Q"," ","t","o","p","i","c","s"," ","(","e",".","g",
      ".",","," ","c","o","s","t"," ","o","f"," ","l","i","v","i","n","g",","," ","s","c","h",
      "o","o","l","s",","," ","s","a","f","e","t","y",","," ","m","a","r","k","e","t",")"," ",
      "t","h","a","t"," ","a","r","e"," ","m","i","s","s","i","n","g"," ","f","r","o","m"," ",
      "B","a","y","u","t","RSQUOTE","s"," ","F","A","Q"," ","c","o","v","e","r","a","g","e",
      ".">>

D_ComparisonSuchAs ==
    <<"C","o","m","p","a","r","i","s","o","n"," ","b","e","t","w","e","e","n"," ","t","h","e",
      " ","a","r","e","a"," ","a","n","d"," ","n","e","a","r","b","y"," ","n","e","i","g","h",
      "b","o","r","h","o","o","d","s"," ","s","u","c","h"," ","a","s"," ">>

D_ComparisonTail ==
    <<","," ","h","i","g","h","l","i","g","h","t","i","n","g"," ","d","i","f","f","e","r","e",
      "n","c","e","s"," ","i","n"," ","p","r","i","c","e",","," ","c","o","m","m","u","n","i",
      "t","y"," ","f","e","e","l",","," ","a","n","d"," ","s","u","i","t","a","b","i","l","i",
      "t","y",".">>

D_ComparisonPlain ==
    <<"C","o","m","p","a","r","i","s","o","n"," ","b","e","t","w","e","e","n"," ","t","h","e",
      " ","a","r","e","a"," ","a","n","d"," ","n","e","a","r","b","y"," ","n","e","i","g","h",
      "b","o","r","h","o","o","d","s",","," ","h","i","g","h","l","i","g","h","t","i","n","g",
      " ","d","i","f","f","e","r","e","n","c","e","s"," ","i","n"," ","p","r","i","c","e",",",
      " ","c","o","m","m","u","n","i","t","y"," ","f","e","e","l",","," ","a","n","d"," ","s",
      "u","i","t","a","b","i","l","i","t","y",".">>

\* str.replace(old, ""): every occurrence of old, left to right, is dropped.
RECURSIVE RemoveAll(_, _)
RemoveAll(s, old) ==
    IF Len(s) < Len(old) THEN s
    ELSE IF SubSeq(s, 1, Len(old)) = old
         THEN RemoveAll(SubSeq(s, Len(old) + 1, Len(s)), old)
         ELSE <<Head(s)>> \o RemoveAll(Tail(s), old)

\* The part of s before the first character of `stops` (all of s without one).
UpTo(s, stops) ==
    LET at == {i \in DOMAIN s : s[i] \in stops}
    IN  IF at = {} THEN s
        ELSE SubSeq(s, 1, (CHOOSE i \in at : \A j \in at : i <= j) - 1)

\* urlparse(url).netloc for a url written scheme://netloc/path; a url without
\* "//" has no netloc.
Netloc(url) ==
    LET at == {i \in DOMAIN url : i + 1 <= Len(url) /\ url[i] = "/" /\ url[i + 1] = "/"}
    IN  IF at = {} THEN <<>>
        ELSE LET p == CHOOSE i \in at : \A j \in at : i <= j
             IN  UpTo(SubSeq(url, p + 2, Len(url)), {"/", "?", "#"})

\* _competitor_label(url)
_competitor_label(url) ==
    LET host == RemoveAll(Lower(Netloc(url)), <<"w","w","w",".">>)
    IN  IF Contains(host, <<"d","r","i","v","e","n","p","r","o","p","e","r","t","i","e","s">>)
            THEN <<"D","r","i","v","e","n"," ","P","r","o","p","e","r","t","i","e","s">>
        ELSE IF Contains(host, <<"p","r","o","p","e","r","t","y","f","i","n","d","e","r">>)
            THEN <<"P","r","o","p","e","r","t","y"," ","F","i","n","d","e","r">>
        ELSE IF Contains(host, <<"b","a","y","u","t">>)
            THEN <<"B","a","y","u","t">>
        ELSE IF Contains(host, <<"d","u","b","i","z","z","l","e">>)
            THEN <<"D","u","b","i","z","z","l","e">>
        ELSE IF host # <<>> THEN UpTo(host, {":"})
        ELSE <<"C","o","m","p","e","t","i","t","o","r">>

\* The first status for which raise_for_status() raises.
FirstErrorStatus == 400

\* _fetch_html(url): the server's response is [raised, status, markup]; the
\* call raises when requests.get raised or the status is an error status.
FetchRaises(response) == response.raised \/ response.status >= FirstErrorStatus

\* The tags _parse_page removes before it reads anything.
NoiseTags == {"script", "style", "noscript", "nav", "footer", "header", "aside", "form"}

\* soup.find_all(tag), then the clean text of each, skipping empty and junk ones.
HeadingsOfTag(nodes, tag) ==
    LET els   == SelectSeq(nodes, LAMBDA n : n.name = tag)
        texts == [i \in DOMAIN els |-> _clean(Strip(els[i].text))]
    IN  SelectSeq(texts, LAMBDA x : x # <<>> /\ ~_is_junk_heading(x))

\* soup.get_text(" ", strip=True): the stripped texts joined by a space.
RECURSIVE JoinWith(_, _)
JoinWith(parts, sep) ==
    IF parts = <<>> THEN <<>>
    ELSE IF Len(parts) = 1 THEN parts[1]
    ELSE parts[1] \o sep \o JoinWith(Tail(parts), sep)

PageText(nodes) ==
    LET texts == [i \in DOMAIN nodes |-> Strip(nodes[i].text)]
    IN  JoinWith(SelectSeq(texts, LAMBDA x : x # <<>>), <<" ">>)

\* faq_qs: the names of the FAQPage entities of the ld+json scripts found in
\* the soup, cleaned, without empty ones, each once in first-seen order.
RECURSIVE AppendNew(_, _)
AppendNew(list, names) ==
    IF names = <<>> THEN list
    ELSE LET q == _clean(Head(names))
         IN  AppendNew(IF q # <<>> /\ q \notin SeqToSet(list) THEN Append(list, q) ELSE list,
                       Tail(names))

RECURSIVE JsonLdFaqNames(_, _)
JsonLdFaqNames(nodes, list) ==
    IF nodes = <<>> THEN list
    ELSE JsonLdFaqNames(Tail(nodes),
            IF Head(nodes).name = "script" /\ Head(nodes).type = "application/ld+json"
            THEN AppendNew(list, Head(nodes).faq)
            ELSE list)

\* _parse_page(url) for a response that did not raise: the noise tags, script
\* among them, are decomposed first, and everything is read from what is left.
_parse_page(url, response) ==
    LET soup == SelectSeq(response.markup, LAMBDA n : n.name \notin NoiseTags)
    IN  [url           |-> url,
         source        |-> _competitor_label(url),
         headings      |-> HeadingsOfTag(soup, "h1") \o HeadingsOfTag(soup, "h2")
                           \o HeadingsOfTag(soup, "h3") \o HeadingsOfTag(soup, "h4"),
         text          |-> _clean(PageText(soup)),
         faq_questions |-> JsonLdFaqNames(soup, <<>>)]

Row(header, contains, source) ==
    [Missing_header |-> header, What_the_header_contains |-> contains, Source |-> source]

\* A rule appends its row when its condition holds.
RowIf(cond, row) == IF cond THEN <<row>> ELSE <<>>

\* The description of the comparison row.
ComparisonDesc(comp) ==
    LET areas == _extract_area_mentions(comp.text)
    IN  IF areas # <<>>
        THEN D_ComparisonSuchAs \o JoinWith(areas, <<",", " ">>) \o D_ComparisonTail
        ELSE D_ComparisonPlain

\* The rows of one competitor before de-duplication, rule by rule.
RuleRows(bayut, comp) ==
    LET source == comp.source
    IN     RowIf(_competitor_has_comparison(comp) /\ ~_bayut_has_comparison(bayut),
                 Row(H_Comparison, ComparisonDesc(comp), source))
        \o RowIf(_competitor_has_connectivity(comp) /\ ~_bayut_has_connectivity_expanded(bayut),
                 Row(H_Connectivity, D_Connectivity, source))
        \o RowIf(_competitor_has_extras_within_pros(comp), Row(H_Extras, D_Extras, source))
        \o RowIf(_competitor_has_prefer_despite_cons(comp), Row(H_Prefer, D_Prefer, source))
        \o RowIf(_competitor_has_final_thoughts(comp),
                 Row(H_FinalThoughts, D_FinalThoughts, source))
        \o RowIf(_competitor_has_conclusion(comp), Row(H_Conclusion, D_Conclusion, source))
        \o RowIf(_competitor_has_detailed_pros(comp),
                 Row(H_DetailedPros, D_DetailedPros, source))
        \o RowIf(_competitor_has_detailed_cons(comp),
                 Row(H_DetailedCons, D_DetailedCons, source))
        \o RowIf(_competitor_has_faqs(comp),
                 Row(H_Faq, IF ~_bayut_has_faqs(bayut) THEN D_Faq ELSE D_FaqExtra, source))

\* De-dup by Missing header (keep first).
Deduped(rows) ==
    LET k(i) == Lower(Strip(rows[i].Missing_header))
        first == {i \in DOMAIN rows : \A j \in 1..(i - 1) : k(j) # k(i)}
        kept  == SelectSeq([i \in DOMAIN rows |-> i], LAMBDA i : i \in first)
    IN  [j \in DOMAIN kept |-> rows[kept[j]]]

\* The number of competitor urls analyze_article reads.
MaxCompetitorPages == 5

\* analyze_article(bayut_url, competitor_urls), the web serving served[u] for
\* url u: the call raises when a fetch raises, for there is no handler; the
\* return is marked `raised` then.
analyze_article(b_url, c_urls, served) ==
    LET urls == SubSeq(c_urls, 1,
                       IF Len(c_urls) < MaxCompetitorPages THEN Len(c_urls)
                       ELSE MaxCompetitorPages)
    IN  IF \/ FetchRaises(served[b_url])
           \/ \E i \in DOMAIN urls : FetchRaises(served[urls[i]])
        THEN [raised |-> TRUE, bayut_url |-> b_url, results |-> <<>>]
        ELSE LET bayut == _parse_page(b_url, served[b_url])
             IN  [raised    |-> FALSE,
                  bayut_url |-> b_url,
                  results   |->
                     [i \in DOMAIN urls |->
                        LET comp == _parse_page(urls[i], served[urls[i]])
                        IN  [competitor |-> comp.source,
                             url        |-> urls[i],
                             rows       |-> Deduped(RuleRows(bayut, comp))]]]

(***************************************************************************)
(* analyze_article called on a primary url and competitor urls             *)
(***************************************************************************)
A_Living ==
    <<"L","i","v","i","n","g"," ","i","n"," ","J","L","T">>

A_Location ==
    <<"L","o","c","a","t","i","o","n">>

A_Near ==
    <<"J","L","T"," ","i","s"," ","c","l","o","s","e"," ","t","o"," ","D","u","b","a","i"," ",
      "M","a","r","i","n","a",".">>

A_Overview ==
    <<"O","v","e","r","v","i","e","w">>

A_Guide ==
    <<"A"," ","s","h","o","r","t"," ","g","u","i","d","e",".">>

A_ContactUs ==
    <<"C","o","n","t","a","c","t"," ","u","s">>

Q_Safe ==
    <<"I","s"," ","J","L","T"," ","s","a","f","e","?">>

Q_Schools ==
    <<"A","r","e"," ","t","h","e","r","e"," ","s","c","h","o","o","l","s","?">>

Q_Costly ==
    <<"I","s"," ","i","t"," ","c","o","s","t","l","y","?">>

A_Faqs ==
    <<"F","A","Q","s">>

A_Subscribe ==
    <<"S","u","b","s","c","r","i","b","e"," ","t","o"," ","o","u","r"," ","n","e","w","s","l",
      "e","t","t","e","r">>

A_Questions ==
    <<"I","s"," ","J","L","T"," ","s","a","f","e","?"," ","A","r","e"," ","t","h","e","r","e",
      " ","s","c","h","o","o","l","s","?"," ","I","s"," ","i","t"," ","c","o","s","t","l","y",
      "?">>

A_FinalThoughts ==
    <<"F","i","n","a","l"," ","t","h","o","u","g","h","t","s">>

A_Vs ==
    <<"J","L","T"," ","v","s"," ","D","u","b","a","i"," ","M","a","r","i","n","a">>

A_Conclusion ==
    <<"C","o","n","c","l","u","s","i","o","n">>

A_Compared ==
    <<"A"," ","c","o","m","p","a","r","i","s","o","n"," ","o","f"," ","J","L","T"," ","a","n",
      "d"," ","D","o","w","n","t","o","w","n"," ","D","u","b","a","i",".">>

A_RelatedVs ==
    <<"R","e","l","a","t","e","d",":"," ","J","L","T"," ","v","s"," ","D","o","w","n","t","o",
      "w","n"," ","D","u","b","a","i">>

U_Bayut ==
    <<"h","t","t","p","s",":","/","/","w","w","w",".","b","a","y","u","t",".","c","o","m","/",
      "m","y","b","a","y","u","t","/","j","l","t">>

U_PropertyFinder ==
    <<"h","t","t","p","s",":","/","/","w","w","w",".","p","r","o","p","e","r","t","y","f","i",
      "n","d","e","r",".","a","e","/","b","l","o","g","/","j","l","t">>

U_Example ==
    <<"h","t","t","p",":","/","/","B","l","o","g",".","E","x","a","m","p","l","e",".","c","o",
      "m",":","8","0","8","0","/","j","l","t">>

\* An element with text, and an ld+json script holding a FAQPage.
El(name, text) == [name |-> name, type |-> "", text |-> text, faq |-> <<>>]

JsonLd(names) == [name |-> "script", type |-> "application/ld+json", text |-> <<>>, faq |-> names]

\* A page without FAQs; a page whose three FAQs are in its JSON-LD only; a
\* page with a FAQ heading, three questions in its text and a subscribe
\* prompt; a page with a comparison and a conclusion; the first page with a
\* related-articles heading added.
M_Primary == <<El("h1", A_Living), El("h2", A_Location), El("p", A_Near)>>

M_PrimaryRelated == Append(M_Primary, El("h2", A_RelatedVs))

M_JsonLdFaq ==
    <<El("nav", A_ContactUs), El("h2", A_Overview), El("p", A_Guide),
      JsonLd(<<Q_Safe, Q_Schools, Q_Costly>>)>>

M_VisibleFaq ==
    <<El("h2", A_Faqs), El("p", A_Questions), El("h2", A_Subscribe), El("h2", A_FinalThoughts)>>

M_Compare == <<El("h2", A_Vs), El("p", A_Compared), El("h2", A_Conclusion)>>

Served(status, markup) == [raised |-> FALSE, status |-> status, markup |-> markup]

\* What a url may serve: one of the pages, a page with status 404, or no
\* response at all.
ArticleResponses ==
    { Served(200, M_Primary), Served(200, M_JsonLdFaq), Served(200, M_VisibleFaq),
      Served(200, M_Compare), Served(200, M_PrimaryRelated), Served(404, M_Primary),
      [raised |-> TRUE, status |-> 0, markup |-> <<>>] }

CompetitorUrlPool == {U_PropertyFinder, U_Example}

\* The number of competitor urls given to analyze_article.
MaxArticleCompetitors == 2

InitArticle ==
    /\ GapsIdle
    /\ NormIdle
    /\ ParseIdle
    /\ AppIdle
    /\ bayut_url = U_Bayut
    /\ competitor_urls \in UNION {[1..n -> CompetitorUrlPool] : n \in 1..MaxArticleCompetitors}
    /\ web \in [CompetitorUrlPool \cup {U_Bayut} -> ArticleResponses]
    /\ analysis = <<>>

\* The caller calls analyze_article(bayut_url, competitor_urls).
AnalyzeArticle ==
    /\ analysis = <<>>
    /\ analysis' = <<analyze_article(bayut_url, competitor_urls, web)>>
    /\ UNCHANGED <<urlVars, web, gapVars, normVars, parseVars, appVars>>

NextArticle == AnalyzeArticle

SpecArticle == InitArticle /\ [][NextArticle]_vars

(***************************************************************************)
(* Claims about analyze_article                                            *)
(***************************************************************************)
\* The FAQ questions a page states: the names of the FAQPage entities in the
\* JSON-LD of the markup it serves.
StatedQuestions(url) ==
    LET scripts == SelectSeq(web[url].markup, LAMBDA n : n.type = "application/ld+json")
    IN  UNION {SeqToSet(scripts[k].faq) : k \in DOMAIN scripts}

FaqRows(rows) == SelectSeq(rows, LAMBDA r : r.Missing_header = H_Faq)

\* C7 (FAQ gap row): when the primary page has no FAQ questions and a
\* competitor has 3, that competitor's rows hold exactly one row
\* 'FAQs (missing questions)' and its 'What the header contains' lists all 3
\* of the competitor's questions.
C7_FaqRowListsQuestions ==
    (analysis # <<>> /\ StatedQuestions(bayut_url) = {}) =>
        \A k \in DOMAIN analysis[1].results :
            Cardinality(StatedQuestions(analysis[1].results[k].url)) = 3 =>
                LET faq == FaqRows(analysis[1].results[k].rows)
                IN  /\ Len(faq) = 1
                    /\ \A q \in StatedQuestions(analysis[1].results[k].url) :
                          Contains(faq[1].What_the_header_contains, q)

\* The competitor urls analyze_article reads: the first five.
FirstFive ==
    SubSeq(competitor_urls, 1, IF Len(competitor_urls) < 5 THEN Len(competitor_urls) ELSE 5)

\* C13 (batch isolation): when the primary page can be fetched and the fetch
\* of a competitor url fails, analyze_article does not raise; it returns an
\* entry for every competitor url of the first five, in order, and the entry
\* of a failing competitor has no rows or one marker row.
C13_ArticleBatchIsolation ==
    (analysis # <<>> /\ ~FetchRaises(web[bayut_url])) =>
        /\ ~analysis[1].raised
        /\ [k \in DOMAIN analysis[1].results |-> analysis[1].results[k].url] = FirstFive
        /\ \A k \in DOMAIN analysis[1].results :
              FetchRaises(web[analysis[1].results[k].url]) =>
                  Len(analysis[1].results[k].rows) <= 1

\* C14 (no gap): a competitor page with the headings, the text and the FAQ
\* questions of the primary page gets an empty list of rows.
C14_NoRowsWhenIdentical ==
    (analysis # <<>> /\ ~analysis[1].raised) =>
        \A k \in DOMAIN analysis[1].results :
            web[analysis[1].results[k].url].markup = web[bayut_url].markup =>
                analysis[1].results[k].rows = <<>>

\* The places of the rows of all competitor results of the call, and the pair
\* of trimmed lower-case 'Missing header' and 'Source' of the row at a place.
RowPairs ==
    LET res == analysis[1].results
    IN  UNION {{<<k, r>> : r \in DOMAIN res[k].rows} : k \in DOMAIN res}

PairOf(kr) ==
    LET row == analysis[1].results[kr[1]].rows[kr[2]]
    IN  <<Lower(Strip(row.Missing_header)), row.Source>>

\* C15 (no duplicates): in the whole output of one call no two rows have the
\* same pair of trimmed lower-case 'Missing header' and 'Source'.
C15_NoDuplicatePairs ==
    (analysis # <<>> /\ ~analysis[1].raised) =>
        \A a, b \in RowPairs : a # b => PairOf(a) # PairOf(b)

\* The generic missing-section rows the claim names.
GenericHeaders == {H_FinalThoughts, H_Conclusion, H_Prefer}

\* C23 (category priority): within the rows of each competitor the comparison
\* row, when present, is the first row, and the FAQ row stands before every
\* generic missing-section row.
C23_CategoryPriority ==
    (analysis # <<>> /\ ~analysis[1].raised) =>
        \A k \in DOMAIN analysis[1].results :
            LET rows == analysis[1].results[k].rows
            IN  /\ \A i \in DOMAIN rows :
                      rows[i].Missing_header = H_Comparison => i = 1
                /\ \A i, j \in DOMAIN rows :
                      (/\ rows[i].Missing_header = H_Faq
                       /\ rows[j].Missing_header \in GenericHeaders)
                      => i < j

\* The markup `more` is the markup `less` with one junk heading added.
AddsJunkHeading(less, more) ==
    /\ Len(more) = Len(less) + 1
    /\ \E p \in DOMAIN more :
          /\ more[p].name \in {"h1", "h2", "h3", "h4"}
          /\ _is_junk_heading(more[p].text)
          /\ less = SubSeq(more, 1, p - 1) \o SubSeq(more, p + 1, Len(more))

\* The 'Missing header' and 'What the header contains' of the rows.
RowTexts(rows) ==
    [i \in DOMAIN rows |-> <<rows[i].Missing_header, rows[i].What_the_header_contains>>]

\* C25 (junk headings): when the page of one competitor is the page of another
\* with one junk heading added, the rows of the two competitors have the same
\* headers and descriptions.
C25_JunkHeadingNoInfluence ==
    (analysis # <<>> /\ ~analysis[1].raised) =>
        \A a, b \in DOMAIN analysis[1].results :
            AddsJunkHeading(web[analysis[1].results[a].url].markup,
                            web[analysis[1].results[b].url].markup)
            => RowTexts(analysis[1].results[a].rows) = RowTexts(analysis[1].results[b].rows)

(***************************************************************************)
(* The normalization helper of the fixed-row engine applied to a text, and *)
(* again to its result: `heading` is the text, `normalized` the results.   *)
(***************************************************************************)
\* _norm is applied to the text.
Norm ==
    /\ normalized = <<>>
    /\ normalized' = <<_norm(heading)>>
    /\ UNCHANGED <<heading, gapVars, parseVars, urlVars, articleVars, appVars>>

\* _norm is applied to its own result.
NormAgain ==
    /\ Len(normalized) = 1
    /\ normalized' = Append(normalized, _norm(normalized[1]))
    /\ UNCHANGED <<heading, gapVars, parseVars, urlVars, articleVars, appVars>>

NextDiffNorm == Norm \/ NormAgain

SpecDiffNorm == InitNorm /\ [][NextDiffNorm]_vars

\* C29 (idempotence of _norm): applying _norm to a result of _norm returns
\* that result.
C29_NormIdempotent ==
    \A k \in DOMAIN normalized : normalized[k] = normalized[1]

(***************************************************************************)
(* app.py: the run step, and analyzers/fetcher.py                          *)
(***************************************************************************)
P_Http ==
    <<"h","t","t","p",":","/","/">>

P_Https ==
    <<"h","t","t","p","s",":","/","/">>

CT_Html ==
    <<"t","e","x","t","/","h","t","m","l",";"," ","c","h","a","r","s","e","t","=","u","t","f",
      "-","8">>

CT_Pdf ==
    <<"a","p","p","l","i","c","a","t","i","o","n","/","p","d","f">>

E_NotHtml ==
    <<"N","o","t"," ","H","T","M","L",":"," ">>

E_Timeout ==
    <<"R","e","a","d"," ","t","i","m","e","d"," ","o","u","t",".">>

I_Blank ==
    <<" "," ">>

I_SiteA ==
    <<" ","a",".","c","o","m","/","j","l","t"," ">>

I_SiteB ==
    <<"h","t","t","p","s",":","/","/","b",".","c","o","m","/","j","l","t">>

I_Title ==
    <<"L","i","v","i","n","g"," ","i","n"," ","J","L","T">>

I_Moved ==
    <<"h","t","t","p","s",":","/","/","b",".","c","o","m","/","e","n","/","j","l","t">>

I_BayutUrl ==
    <<"b","a","y","u","t",".","c","o","m","/","m","y","b","a","y","u","t","/","j","l","t">>

StartsWith(s, prefix) == Len(s) >= Len(prefix) /\ SubSeq(s, 1, Len(prefix)) = prefix

\* The mutant: the url is not stripped.
normalize_url_NoStrip(url) ==
    IF url = <<>> THEN <<>>
    ELSE IF ~(StartsWith(url, P_Http) \/ StartsWith(url, P_Https)) THEN P_Https \o url
    ELSE url

\* normalize_url(url)
normalize_url(url) ==
    LET u == Strip(url)
    IN  IF u = <<>> THEN <<>>
        ELSE IF ~(StartsWith(u, P_Http) \/ StartsWith(u, P_Https)) THEN P_Https \o u
        ELSE u

\* The first status that is not ok.
FirstNotOkStatus == 400

\* response.url: the url the request ended at, after the redirects.
ResponseUrl(url, response) ==
    IF response.location = <<>> THEN url ELSE response.location

\* The mutant: a page is ok whenever it is HTML, whatever its status.
fetch_html_OkWhenHtml(url, response) ==
    IF response.raised
    THEN [ok |-> FALSE, url |-> url, final_url |-> url, status |-> "None", html |-> <<>>,
          error |-> E_Timeout]
    ELSE IF ~Contains(response.content_type, <<"t","e","x","t","/","h","t","m","l">>)
    THEN [ok |-> FALSE, url |-> url, final_url |-> ResponseUrl(url, response),
          status |-> response.status, html |-> <<>>,
          error |-> E_NotHtml \o response.content_type]
    ELSE [ok |-> TRUE, url |-> url, final_url |-> ResponseUrl(url, response),
          status |-> response.status, html |-> response.text, error |-> <<>>]

\* fetch_html(url, timeout), the server answering with `response`: a response
\* is [raised, status, content_type, text, location]; an exception of
\* requests.get is caught and reported in the result.
fetch_html(url, response) ==
    IF response.raised
    THEN [ok |-> FALSE, url |-> url, final_url |-> url, status |-> "None", html |-> <<>>,
          error |-> E_Timeout]
    ELSE IF ~Contains(response.content_type, <<"t","e","x","t","/","h","t","m","l">>)
    THEN [ok |-> FALSE, url |-> url, final_url |-> ResponseUrl(url, response),
          status |-> response.status, html |-> <<>>,
          error |-> E_NotHtml \o response.content_type]
    ELSE [ok |-> response.status < FirstNotOkStatus, url |-> url,
          final_url |-> ResponseUrl(url, response),
          status |-> response.status, html |-> response.text, error |-> <<>>]

\* The competitor_urls of a run: the normalized non-blank inputs, in order.
NormalizedInputs(inputs) ==
    LET urls == [k \in DOMAIN inputs |-> normalize_url(inputs[k])]
    IN  SelectSeq(urls, LAMBDA u : u # <<>>)

\* The mutant: the loop is left at the first url that could not be fetched.
AfterError_Break(at, urls) == Len(urls) + 1

\* `continue` in the fetch loop: the loop goes on with the next url.
AfterError(at, urls) == at + 1

\* The number of competitor fields of the form.
MaxCompetitorInputs == 2

\* What a server may answer: two pages (one with a subscribe prompt as a
\* heading, the other reached by a redirect), a page with status 404, a PDF,
\* and no answer at all.
AppResponses ==
    { [raised |-> FALSE, status |-> 200, content_type |-> CT_Html, location |-> <<>>,
       text |-> <<Leaf("h2", T_Cost), Leaf("h2", T_Subscribe)>>],
      [raised |-> FALSE, status |-> 200, content_type |-> CT_Html, location |-> I_Moved,
       text |-> <<Leaf("h3", T_Safe), Leaf("p", T_Para)>>],
      [raised |-> FALSE, status |-> 404, content_type |-> CT_Html, location |-> <<>>,
       text |-> <<Leaf("h2", T_Faqs)>>],
      [raised |-> FALSE, status |-> 200, content_type |-> CT_Pdf, location |-> <<>>,
       text |-> <<>>],
      [raised |-> TRUE, status |-> 0, content_type |-> <<>>, location |-> <<>>,
       text |-> <<>>] }

\* The form as filled in when "Run analysis" is clicked: in NEW POST mode the
\* url field is absent (bayut_url = ""), in UPDATE mode the title field is.
InitApp ==
    /\ NormIdle
    /\ ParseIdle
    /\ GapsIdle
    /\ web = <<>>
    /\ analysis = <<>>
    /\ mode \in {"NEW POST", "UPDATE"}
    /\ bayut_title \in (IF mode = "NEW POST" THEN {<<>>, I_Blank, I_Title} ELSE {<<>>})
    /\ bayut_url \in (IF mode = "UPDATE" THEN {<<>>, I_Blank, I_BayutUrl} ELSE {<<>>})
    /\ session_competitors \in
          UNION {[1..n -> {<<>>, I_SiteA, I_SiteB}] : n \in 1..MaxCompetitorInputs}
    /\ competitor_urls = <<>>
    /\ errors = <<>>
    /\ next_url = 0
    /\ pc = "form"
    /\ message = "none"
    /\ fetch_log = <<>>
    /\ bayut_result = <<>>

\* st.error(text) followed by st.stop().
Stop(text) ==
    /\ pc' = "stopped"
    /\ message' = text

\* "Run analysis" is clicked: the urls are normalized and the form is checked.
Run ==
    /\ pc = "form"
    /\ competitor_urls' = NormalizedInputs(session_competitors)
    /\ IF mode = "NEW POST" /\ Strip(bayut_title) = <<>>
       THEN Stop("Please enter a Bayut title.")
       ELSE IF mode = "UPDATE" /\ normalize_url(bayut_url) = <<>>
       THEN Stop("Please enter a Bayut URL.")
       ELSE IF competitor_urls' = <<>>
       THEN Stop("Please add at least one competitor URL.")
       ELSE pc' = "fetching" /\ message' = message
    /\ next_url' = 1
    /\ UNCHANGED <<bayut_url, mode, bayut_title, session_competitors, errors, fetch_log,
                   bayut_result, gapVars, normVars, parseVars, articleVars>>

\* An entry of the log of fetches: the result of fetch_html, and the response
\* of the server it was made from.
Logged(result, response) ==
    [ok |-> result.ok, url |-> result.url, final_url |-> result.final_url,
     status |-> result.status, html |-> result.html, error |-> result.error,
     response |-> response]

\* One pass of the loop over competitor_urls: the url is fetched, and parsed
\* when the fetch is ok.
FetchCompetitor ==
    /\ pc = "fetching"
    /\ next_url <= Len(competitor_urls)
    /\ \E response \in AppResponses :
         LET url    == competitor_urls[next_url]
             result == fetch_html(url, response)
         IN  /\ fetch_log' = Append(fetch_log, Logged(result, response))
             /\ IF ~result.ok
                THEN /\ errors' = Append(errors, [URL    |-> url,
                                                 Error  |-> result.error,
                                                 Status |-> result.status])
                     /\ next_url' = AfterError(next_url, competitor_urls)
                     /\ UNCHANGED competitors
                ELSE /\ \E iterated \in IterationOrders(QuestionsOf(result.html)) :
                          competitors' = Append(competitors,
                              [url |-> url, parsed |-> parse_html(result.html, iterated)])
                     /\ next_url' = next_url + 1
                     /\ UNCHANGED errors
    /\ UNCHANGED <<bayut_parsed, call, missing, recommendations, urlVars, mode, bayut_title,
                   session_competitors, pc, message, bayut_result,
                   normVars, parseVars, articleVars>>

\* After the loop, no competitor could be fetched.
NoCompetitors ==
    /\ pc = "fetching"
    /\ next_url > Len(competitor_urls)
    /\ competitors = <<>>
    /\ Stop("No competitor pages could be analyzed.")
    /\ UNCHANGED <<gapVars, urlVars, mode, bayut_title, session_competitors, errors, next_url,
                   fetch_log, bayut_result, normVars, parseVars, articleVars>>

\* After the loop, NEW POST mode: the strategy is computed from the competitors.
NewPost ==
    /\ pc = "fetching"
    /\ next_url > Len(competitor_urls)
    /\ competitors # <<>>
    /\ mode = "NEW POST"
    /\ recommendations' = new_post_strategy(competitors)
    /\ call' = "new_post_strategy"
    /\ pc' = "results"
    /\ UNCHANGED <<bayut_parsed, competitors, missing, urlVars, mode, bayut_title,
                   session_competitors, errors, next_url, message, fetch_log, bayut_result,
                   normVars, parseVars, articleVars>>

\* The keys of the record parse_html returns.
ParsedKeys ==
    {"page_url", "competitor_name", "title", "meta_description", "robots", "viewport",
     "og_title", "og_description", "og_image", "h1", "h2", "h3", "h4", "headings",
     "section_texts", "faq_questions", "word_count", "schema_types", "schema_count",
     "has_map", "image_count", "video_count", "table_count", "raw_text"}

\* The keys `check` of compliance_analysis reads with page["parsed"][key], in
\* the order of the reads.
CheckReads ==
    <<"raw_text", "h2", "word_count", "h2", "has_faq_signal", "h2", "table_count",
      "internal_links">>

\* The keys media_flags reads with p.get(key, default).
MediaReads ==
    {"image_count", "video_count", "iframe_count", "table_count", "has_map_signal",
     "og_image"}

\* d[key] for each key of `reads` in turn, on a dict with the keys `keys`: the
\* key of the first read that raises KeyError, or "" when every read succeeds.
FirstKeyError(reads, keys) ==
    LET absent == {i \in DOMAIN reads : reads[i] \notin keys}
    IN  IF absent = {} THEN ""
        ELSE reads[CHOOSE i \in absent : \A j \in absent : i <= j]

\* compliance_analysis(bayut, competitors, title) on parsed records with the
\* keys `keys`: the key whose read raises, or "" when the rows are returned.
compliance_analysis(keys) == FirstKeyError(CheckReads, keys)

\* After the loop, UPDATE mode: the Bayut page is fetched; the run stops when
\* that fetch is not ok, else the page is parsed, the gaps are computed and
\* shown, and compliance_analysis is called: when it raises, the run ends with
\* the exception; else the tables that follow (media, schema, AI visibility)
\* read with .get and the run reaches the downloads.
Update ==
    /\ pc = "fetching"
    /\ next_url > Len(competitor_urls)
    /\ competitors # <<>>
    /\ mode = "UPDATE"
    /\ \E response \in AppResponses :
         LET result == fetch_html(normalize_url(bayut_url), response)
         IN  /\ bayut_result' = <<Logged(result, response)>>
             /\ IF ~result.ok
                THEN /\ Stop("Bayut URL could not be fetched.")
                     /\ UNCHANGED <<bayut_parsed, call, missing>>
                ELSE /\ \E iterated \in IterationOrders(QuestionsOf(result.html)) :
                          bayut_parsed' = parse_html(result.html, iterated)
                     /\ missing' = update_gaps(bayut_parsed', competitors)
                     /\ call' = "update_gaps"
                     /\ IF compliance_analysis(ParsedKeys) # ""
                        THEN /\ pc' = "failed"
                             /\ message' = compliance_analysis(ParsedKeys)
                        ELSE /\ pc' = "results"
                             /\ message' = message
    /\ UNCHANGED <<competitors, recommendations, urlVars, mode, bayut_title,
                   session_competitors, errors, next_url, fetch_log,
                   normVars, parseVars, articleVars>>

NextApp == Run \/ FetchCompetitor \/ NoCompetitors \/ NewPost \/ Update

SpecApp == InitApp /\ [][NextApp]_vars

(***************************************************************************)
(* Claims about the run step                                               *)
(***************************************************************************)
\* The analysis of the mode has run and its first table is shown.
Analysed == pc \in {"results", "failed"}

\* The run is past the fetch loop.
LoopDone ==
    \/ Analysed
    \/ pc = "stopped" /\ message \in {"No competitor pages could be analyzed.",
                                      "Bayut URL could not be fetched."}

UrlsOf(list) == [k \in DOMAIN list |-> list[k].url]

\* The fetches of the loop that were ok, and those that were not, in order.
OkFetches == SelectSeq(fetch_log, LAMBDA r : r.ok)

FailedFetches == SelectSeq(fetch_log, LAMBDA r : ~r.ok)

\* The urls the result of the analysis names as sources.
SourcesOfResult ==
    UNION ({SeqToSet(missing[k].sources) : k \in DOMAIN missing}
           \cup {SeqToSet(recommendations[k].sources) : k \in DOMAIN recommendations})

\* A failed url is in the error list and not among the competitors, every url
\* of the run was fetched, and the analysis ran on the fetched competitors in
\* input order.
Isolation ==
    /\ [k \in DOMAIN errors |-> errors[k].URL] = UrlsOf(FailedFetches)
    /\ UrlsOf(competitors) = UrlsOf(OkFetches)
    /\ LoopDone => UrlsOf(fetch_log) = competitor_urls
    /\ Analysed =>
          /\ competitors # <<>>
          /\ SourcesOfResult \subseteq SeqToSet(UrlsOf(OkFetches))
          /\ mode = "UPDATE" => missing = update_gaps(bayut_parsed, competitors)
          /\ mode = "NEW POST" => recommendations = new_post_strategy(competitors)

\* C9 as stated (batch isolation; the run stops before analysis only when no
\* competitor was fetched successfully).
C9_StopsOnlyWithoutCompetitors ==
    /\ Isolation
    /\ pc = "stopped" => OkFetches = <<>>

\* C9 as amended (batch isolation; the run stops before analysis only when no
\* competitor was fetched successfully or, in UPDATE mode, when the Bayut page
\* could not be fetched).
C9_BatchIsolation ==
    /\ Isolation
    /\ pc = "stopped" =>
          \/ OkFetches = <<>>
          \/ mode = "UPDATE" /\ message = "Bayut URL could not be fetched."
    /\ (LoopDone /\ OkFetches # <<>> /\ mode = "NEW POST") => pc = "results"

\* A run of two urls whose first fetch failed and whose second succeeded, with
\* the analysis done on the second alone.
C9_Witness ==
    /\ pc = "results"
    /\ Len(fetch_log) = 2
    /\ ~fetch_log[1].ok
    /\ fetch_log[2].ok
    /\ Len(errors) = 1
    /\ Len(competitors) = 1
    /\ competitors[1].url = competitor_urls[2]

\* C26 (fetch_html): the result of every fetch is ok exactly when the request
\* did not raise, the content type holds 'text/html' and the status is below
\* 400; when the request raised or the content is not HTML, html is empty and
\* error is set; when the request raised, status is None and final_url is the
\* requested url.
C26_FetchResult ==
    \A k \in DOMAIN fetch_log :
        LET r       == fetch_log[k]
            is_html == Contains(r.response.content_type,
                                <<"t","e","x","t","/","h","t","m","l">>)
        IN  /\ r.ok <=> (~r.response.raised /\ is_html /\ r.response.status < 400)
            /\ (r.response.raised \/ ~is_html) => (r.html = <<>> /\ r.error # <<>>)
            /\ r.response.raised => (r.status = "None" /\ r.final_url = r.url)

\* A run whose first fetch raised and whose second got an HTML page with
\* status 404.
C26_Witness ==
    /\ Len(fetch_log) = 2
    /\ fetch_log[1].response.raised
    /\ ~fetch_log[2].response.raised
    /\ fetch_log[2].response.status = 404
    /\ ~fetch_log[2].ok

\* The input the mode requires is not blank, and a competitor field is not
\* blank.
RequiredInputGiven ==
    IF mode = "NEW POST" THEN Strip(bayut_title) # <<>> ELSE Strip(bayut_url) # <<>>

CompetitorInputGiven ==
    \E k \in DOMAIN session_competitors : Strip(session_competitors[k]) # <<>>

\* C27 (run gating): a page is fetched only when the input the mode requires
\* and a competitor field are not blank; the analysis is shown only when a
\* competitor page was fetched successfully and, in UPDATE mode, the Bayut
\* page was too.
C27_RunGating ==
    /\ (fetch_log # <<>> \/ bayut_result # <<>>)
          => (RequiredInputGiven /\ CompetitorInputGiven)
    /\ Analysed =>
          /\ \E k \in DOMAIN fetch_log : fetch_log[k].ok
          /\ mode = "UPDATE" => (bayut_result # <<>> /\ bayut_result[1].ok)

\* An UPDATE run with one competitor page that could not be fetched and one
\* that could, whose Bayut page was fetched and analysed.
C27_Witness ==
    /\ mode = "UPDATE"
    /\ Analysed
    /\ Len(fetch_log) = 2
    /\ ~fetch_log[1].ok
    /\ fetch_log[2].ok
    /\ bayut_result # <<>>

\* C28 (UPDATE mode completes): when the Bayut page and a competitor page were
\* fetched successfully, the run reaches the downloads, and every key that
\* compliance_analysis and media_comparison read from a parsed record is a key
\* parse_html produces.
C28_UpdateCompletes ==
    (/\ mode = "UPDATE"
     /\ bayut_result # <<>>
     /\ bayut_result[1].ok
     /\ \E k \in DOMAIN fetch_log : fetch_log[k].ok)
    => /\ pc = "results"
       /\ SeqToSet(CheckReads) \cup MediaReads \subseteq ParsedKeys

\* The h2/h3 headings of the competitors that are noise: a boilerplate phrase
\* occurs in them, or they have fewer than 6 normalized characters.
NoiseKeys ==
    UNION { {_normalize(competitors[c].parsed.headings[h].text) :
                h \in {g \in DOMAIN competitors[c].parsed.headings :
                          /\ competitors[c].parsed.headings[g].level \in {2, 3}
                          /\ IsNoise(competitors[c].parsed.headings[g].text)}} :
            c \in DOMAIN competitors }

\* C12 (noise never reaches the output): no competitor heading that is noise
\* is a missing_section of update_gaps or a recommended_section of
\* new_post_strategy.
C12_NoNoiseInOutput ==
    Analysed =>
        /\ \A r \in DOMAIN missing : missing[r].missing_section \notin NoiseKeys
        /\ \A r \in DOMAIN recommendations :
              recommendations[r].recommended_section \notin NoiseKeys

====
